---- MODULE Spec2Model ----
(***************************************************************************)
(* Notification service: the Event Grid handler handleReservationEvent,    *)
(* the use case sendReservationEmail, the EmailNotification entity, the    *)
(* Cosmos notification store and the e-mail transport, as a state machine. *)
(*                                                                         *)
(* A JavaScript string is a sequence of chunks: a chunk is one character   *)
(* (" ", "@", ".", "a", "A", ...) or a piece of fixed text that begins and *)
(* ends with a non-blank character and holds no "@".  undefined is the     *)
(* one-chunk sequence Undefined.  A Date is <<ms>>, a missing Date is <<>>.*)
(* An await is a step boundary: the code between two awaits runs without   *)
(* interleaving, so each action is the code from one await to the next.    *)
(***************************************************************************)
EXTENDS Integers, Sequences, FiniteSets, TLC

\* The number of events the host delivers, each to its own invocation.
MaxInvocations == 2

VARIABLES
    env,                    \* process.env: the settings that are present
    cachedEmailSender,      \* appServices: let cachedEmailSender
    cachedNotificationRepo, \* appServices: let cachedNotificationRepo
    store,                  \* the Cosmos container: id -> NotificationDocument
    written,                \* history: id -> the statuses upserted under it, in order
    inv,                    \* the invocations of handleReservationEvent
    entity,                 \* a notification under createEmailNotification and the marks
    rendering,              \* a call of getEmailTemplate
    reply,                  \* a caller of the notification store and its last call
    delivery                \* a call of AcsEmailSender.sendEmail

vars == <<env, cachedEmailSender, cachedNotificationRepo, store, written, inv,
          entity, rendering, reply, delivery>>

Invocations == 1..MaxInvocations

-----------------------------------------------------------------------------
(* JavaScript strings *)

Undefined == <<"$undefined">>
EmptyString == <<>>

Str(word) == <<word>>

IsWhitespace(c) == c \in {" ", "\n", "\t"}

\* !s for a string or undefined
Falsy(s) == s = Undefined \/ s = EmptyString

RECURSIVE trimStart(_)
trimStart(s) ==
    IF s # <<>> /\ IsWhitespace(Head(s)) THEN trimStart(Tail(s)) ELSE s

RECURSIVE trimEnd(_)
trimEnd(s) ==
    IF s # <<>> /\ IsWhitespace(s[Len(s)]) THEN trimEnd(SubSeq(s, 1, Len(s) - 1)) ELSE s

\* String.prototype.trim
trim(s) == trimEnd(trimStart(s))

LowerOf(c) ==
    CASE c = "A" -> "a"
      [] c = "B" -> "b"
      [] c = "C" -> "c"
      [] c = "R" -> "r"
      [] c = "U" -> "u"
      [] OTHER -> c

\* String.prototype.toLowerCase, on the characters the inputs use
toLowerCase(s) == [k \in 1..Len(s) |-> LowerOf(s[k])]

\* /^[^\s@]+@[^\s@]+\.[^\s@]+$/.test(s)
emailRegexTest(s) ==
    \E at \in 1..Len(s) :
        /\ s[at] = "@"
        /\ at > 1
        /\ \A k \in 1..Len(s) : k # at => (~IsWhitespace(s[k]) /\ s[k] # "@")
        /\ \E dot \in (at + 2)..(Len(s) - 1) : s[dot] = "."

-----------------------------------------------------------------------------
(* The EmailNotification entity *)

NotificationTypes ==
    { "ReservationCreated", "ReservationCollected", "ReservationReturned",
      "ReservationCancelled", "ReservationExpired", "ReservationOverdue" }

Pending == "Pending"
Sent == "Sent"
Failed == "Failed"

NoDate == <<>>

\* No notification: the value of an absent `notification`.
NoNotification == [present |-> FALSE]

\* NotificationError(field, message)
NotificationError(field, message) == [field |-> field, message |-> Str(message)]

NoError == [field |-> "", message |-> Undefined]

validateCreateEmailNotification_emailFirst(params) ==
    IF Falsy(params.id) \/ trim(params.id) = EmptyString
      THEN NotificationError("id", "Notification id must be a non-empty string.")
    ELSE IF Falsy(params.userEmail) \/ trim(params.userEmail) = EmptyString
      THEN NotificationError("userEmail", "Notification userEmail must be a non-empty string.")
    ELSE IF ~emailRegexTest(trim(params.userEmail))
      THEN NotificationError("userEmail", "Notification userEmail must be a valid email address.")
    ELSE IF Falsy(params.userId) \/ trim(params.userId) = EmptyString
      THEN NotificationError("userId", "Notification userId must be a non-empty string.")
    ELSE IF Falsy(params.subject) \/ trim(params.subject) = EmptyString
      THEN NotificationError("subject", "Notification subject must be a non-empty string.")
    ELSE IF Falsy(params.htmlBody) \/ trim(params.htmlBody) = EmptyString
      THEN NotificationError("htmlBody", "Notification htmlBody must be a non-empty string.")
    ELSE IF Falsy(params.reservationId) \/ trim(params.reservationId) = EmptyString
      THEN NotificationError("reservationId", "Notification reservationId must be a non-empty string.")
    ELSE IF params.type \notin NotificationTypes
      THEN NotificationError("type", "Notification type must be one of: ...")
    ELSE NoError

validateCreateEmailNotification_noUserId(params) ==
    IF Falsy(params.id) \/ trim(params.id) = EmptyString
      THEN NotificationError("id", "Notification id must be a non-empty string.")
    ELSE IF Falsy(params.userEmail) \/ trim(params.userEmail) = EmptyString
      THEN NotificationError("userEmail", "Notification userEmail must be a non-empty string.")
    ELSE IF ~emailRegexTest(trim(params.userEmail))
      THEN NotificationError("userEmail", "Notification userEmail must be a valid email address.")
    ELSE IF Falsy(params.subject) \/ trim(params.subject) = EmptyString
      THEN NotificationError("subject", "Notification subject must be a non-empty string.")
    ELSE IF Falsy(params.htmlBody) \/ trim(params.htmlBody) = EmptyString
      THEN NotificationError("htmlBody", "Notification htmlBody must be a non-empty string.")
    ELSE IF Falsy(params.reservationId) \/ trim(params.reservationId) = EmptyString
      THEN NotificationError("reservationId", "Notification reservationId must be a non-empty string.")
    ELSE IF params.type \notin NotificationTypes
      THEN NotificationError("type", "Notification type must be one of: ...")
    ELSE NoError

validateCreateEmailNotification_noFormat(params) ==
    IF Falsy(params.id) \/ trim(params.id) = EmptyString
      THEN NotificationError("id", "Notification id must be a non-empty string.")
    ELSE IF Falsy(params.userId) \/ trim(params.userId) = EmptyString
      THEN NotificationError("userId", "Notification userId must be a non-empty string.")
    ELSE IF Falsy(params.userEmail) \/ trim(params.userEmail) = EmptyString
      THEN NotificationError("userEmail", "Notification userEmail must be a non-empty string.")
    ELSE IF Falsy(params.subject) \/ trim(params.subject) = EmptyString
      THEN NotificationError("subject", "Notification subject must be a non-empty string.")
    ELSE IF Falsy(params.htmlBody) \/ trim(params.htmlBody) = EmptyString
      THEN NotificationError("htmlBody", "Notification htmlBody must be a non-empty string.")
    ELSE IF Falsy(params.reservationId) \/ trim(params.reservationId) = EmptyString
      THEN NotificationError("reservationId", "Notification reservationId must be a non-empty string.")
    ELSE IF params.type \notin NotificationTypes
      THEN NotificationError("type", "Notification type must be one of: ...")
    ELSE NoError

\* The first failing check, or NoError.
validateCreateEmailNotification(params) ==
    IF Falsy(params.id) \/ trim(params.id) = EmptyString
      THEN NotificationError("id", "Notification id must be a non-empty string.")
    ELSE IF Falsy(params.userId) \/ trim(params.userId) = EmptyString
      THEN NotificationError("userId", "Notification userId must be a non-empty string.")
    ELSE IF Falsy(params.userEmail) \/ trim(params.userEmail) = EmptyString
      THEN NotificationError("userEmail", "Notification userEmail must be a non-empty string.")
    ELSE IF ~emailRegexTest(trim(params.userEmail))
      THEN NotificationError("userEmail", "Notification userEmail must be a valid email address.")
    ELSE IF Falsy(params.subject) \/ trim(params.subject) = EmptyString
      THEN NotificationError("subject", "Notification subject must be a non-empty string.")
    ELSE IF Falsy(params.htmlBody) \/ trim(params.htmlBody) = EmptyString
      THEN NotificationError("htmlBody", "Notification htmlBody must be a non-empty string.")
    ELSE IF Falsy(params.reservationId) \/ trim(params.reservationId) = EmptyString
      THEN NotificationError("reservationId", "Notification reservationId must be a non-empty string.")
    ELSE IF params.type \notin NotificationTypes
      THEN NotificationError("type", "Notification type must be one of: ...")
    ELSE NoError

createEmailNotification_keepCase(params, now) ==
    [ present       |-> TRUE,
      id            |-> trim(params.id),
      userId        |-> trim(params.userId),
      userEmail     |-> trim(params.userEmail),
      type          |-> params.type,
      subject       |-> trim(params.subject),
      htmlBody      |-> params.htmlBody,
      textBody      |-> IF params.textBody = Undefined THEN Undefined ELSE trim(params.textBody),
      status        |-> Pending,
      reservationId |-> trim(params.reservationId),
      createdAt     |-> <<now>>,
      sentAt        |-> NoDate,
      failureReason |-> Undefined,
      retryCount    |-> 0,
      updatedAt     |-> <<now>> ]

\* The notification createEmailNotification returns when validation passes;
\* now is what new Date() reads.
createEmailNotification(params, now) ==
    [ present       |-> TRUE,
      id            |-> trim(params.id),
      userId        |-> trim(params.userId),
      userEmail     |-> toLowerCase(trim(params.userEmail)),
      type          |-> params.type,
      subject       |-> trim(params.subject),
      htmlBody      |-> params.htmlBody,
      textBody      |-> IF params.textBody = Undefined THEN Undefined ELSE trim(params.textBody),
      status        |-> Pending,
      reservationId |-> trim(params.reservationId),
      createdAt     |-> <<now>>,
      sentAt        |-> NoDate,
      failureReason |-> Undefined,
      retryCount    |-> 0,
      updatedAt     |-> <<now>> ]

markNotificationSent_clearsFailureReason(notification, now) ==
    [notification EXCEPT !.status = Sent, !.sentAt = <<now>>, !.updatedAt = <<now>>,
                         !.failureReason = Undefined]

markNotificationSent_resetRetryCount(notification, now) ==
    [notification EXCEPT !.status = Sent, !.sentAt = <<now>>, !.updatedAt = <<now>>,
                         !.retryCount = 0]

markNotificationSent_noSentAt(notification, now) ==
    [notification EXCEPT !.status = Sent, !.updatedAt = <<now>>]

markNotificationSent(notification, now) ==
    [notification EXCEPT !.status = Sent, !.sentAt = <<now>>, !.updatedAt = <<now>>]

markNotificationFailed_newCreatedAt(notification, reason, now) ==
    [notification EXCEPT !.status = Failed,
                         !.failureReason = reason,
                         !.retryCount = notification.retryCount + 1,
                         !.createdAt = <<now>>,
                         !.updatedAt = <<now>>]

markNotificationFailed_noIncrement(notification, reason, now) ==
    [notification EXCEPT !.status = Failed, !.failureReason = reason, !.updatedAt = <<now>>]

markNotificationFailed(notification, reason, now) ==
    [notification EXCEPT !.status = Failed,
                         !.failureReason = reason,
                         !.retryCount = notification.retryCount + 1,
                         !.updatedAt = <<now>>]

-----------------------------------------------------------------------------
(* Email templates *)

APP_NAME == "Device Loan System"

\* `${value}` inside a template literal
Interpolate(value) == IF value = Undefined THEN Str("undefined") ELSE value

OptionalLine_unconditional(label, value) == <<label>> \o Interpolate(value)

\* `${value ? `label ${value}` : ''}`
OptionalLine(label, value) == IF Falsy(value) THEN <<>> ELSE <<label>> \o value

HtmlBody(heading, reservationId, lines) ==
    <<"\n", "<!DOCTYPE html>", APP_NAME, heading, "<strong>Reservation ID:</strong>">>
        \o Interpolate(reservationId) \o lines \o <<"</html>">>

TextBody(heading, reservationId, lines) ==
    <<"\n", APP_NAME, heading, "\n", "Reservation ID:">>
        \o Interpolate(reservationId) \o <<"\n">> \o lines \o <<"support@deviceloan.edu", "\n">>

EmailTemplate(subject, htmlBody, textBody) ==
    [subject |-> subject, htmlBody |-> htmlBody, textBody |-> textBody]

getReservationCreatedEmail(data) ==
    EmailTemplate(
        Str("Device Loan System - Your reservation is confirmed"),
        HtmlBody("Reservation Confirmed!", data.reservationId,
            OptionalLine("<strong>Device:</strong>", data.deviceName)
            \o OptionalLine("<strong>Reserved At:</strong>", data.reservedAt)
            \o OptionalLine("<strong>Collection Deadline:</strong>", data.expiresAt)),
        TextBody("Reservation Confirmed!", data.reservationId,
            OptionalLine("Device:", data.deviceName) \o <<"\n">>
            \o OptionalLine("Reserved At:", data.reservedAt) \o <<"\n">>
            \o OptionalLine("Collection Deadline:", data.expiresAt) \o <<"\n">>))

getReservationCollectedEmail(data) ==
    EmailTemplate(
        Str("Device Loan System - Device collected successfully"),
        HtmlBody("Device Collected", data.reservationId,
            OptionalLine("<strong>Device:</strong>", data.deviceName)
            \o OptionalLine("<strong>Collected At:</strong>", data.collectedAt)
            \o OptionalLine("<strong>Return Due:</strong>", data.returnDueAt)),
        TextBody("Device Collected", data.reservationId,
            OptionalLine("Device:", data.deviceName) \o <<"\n">>
            \o OptionalLine("Collected At:", data.collectedAt) \o <<"\n">>
            \o OptionalLine("Return Due:", data.returnDueAt) \o <<"\n">>))

getReservationReturnedEmail(data) ==
    EmailTemplate(
        Str("Device Loan System - Device returned - Thank you!"),
        HtmlBody("Device Returned", data.reservationId,
            OptionalLine("<strong>Device:</strong>", data.deviceName)
            \o OptionalLine("<strong>Returned At:</strong>", data.returnedAt)),
        TextBody("Device Returned", data.reservationId,
            OptionalLine("Device:", data.deviceName) \o <<"\n">>
            \o OptionalLine("Returned At:", data.returnedAt) \o <<"\n">>))

getReservationCancelledEmail(data) ==
    EmailTemplate(
        Str("Device Loan System - Reservation cancelled"),
        HtmlBody("Reservation Cancelled", data.reservationId,
            OptionalLine("<strong>Device:</strong>", data.deviceName)),
        TextBody("Reservation Cancelled", data.reservationId,
            OptionalLine("Device:", data.deviceName) \o <<"\n">>))

getReservationExpiredEmail(data) ==
    EmailTemplate(
        Str("Device Loan System - Reservation expired"),
        HtmlBody("Reservation Expired", data.reservationId,
            OptionalLine("<strong>Device:</strong>", data.deviceName)
            \o OptionalLine("<strong>Expired At:</strong>", data.expiresAt)),
        TextBody("Reservation Expired", data.reservationId,
            OptionalLine("Device:", data.deviceName) \o <<"\n">>
            \o OptionalLine("Expired At:", data.expiresAt) \o <<"\n">>))

getReservationOverdueEmail(data) ==
    EmailTemplate(
        \* the subject's warning sign is left out of the text
        Str("Device Loan System - URGENT: Device return overdue"),
        HtmlBody("Device Return Overdue", data.reservationId,
            OptionalLine("<strong>Device:</strong>", data.deviceName)
            \o OptionalLine("<strong>Was Due:</strong>", data.returnDueAt)),
        TextBody("Device Return Overdue", data.reservationId,
            OptionalLine("Device:", data.deviceName) \o <<"\n">>
            \o OptionalLine("Was Due:", data.returnDueAt) \o <<"\n">>))

NoTemplate == EmailTemplate(Undefined, Undefined, Undefined)

\* A completion of a synchronous call: a value, or an Error with a message.
Returns(value) == [threw |-> FALSE, message |-> Undefined, value |-> value]
Throws(message, value) == [threw |-> TRUE, message |-> message, value |-> value]

getEmailTemplate_defaultCreated(type, data) ==
    CASE type = "ReservationCreated"   -> Returns(getReservationCreatedEmail(data))
      [] type = "ReservationCollected" -> Returns(getReservationCollectedEmail(data))
      [] type = "ReservationReturned"  -> Returns(getReservationReturnedEmail(data))
      [] type = "ReservationCancelled" -> Returns(getReservationCancelledEmail(data))
      [] type = "ReservationExpired"   -> Returns(getReservationExpiredEmail(data))
      [] type = "ReservationOverdue"   -> Returns(getReservationOverdueEmail(data))
      [] OTHER -> Returns(getReservationCreatedEmail(data))

\* The switch over the notification type; the default case throws.
getEmailTemplate(type, data) ==
    CASE type = "ReservationCreated"   -> Returns(getReservationCreatedEmail(data))
      [] type = "ReservationCollected" -> Returns(getReservationCollectedEmail(data))
      [] type = "ReservationReturned"  -> Returns(getReservationReturnedEmail(data))
      [] type = "ReservationCancelled" -> Returns(getReservationCancelledEmail(data))
      [] type = "ReservationExpired"   -> Returns(getReservationExpiredEmail(data))
      [] type = "ReservationOverdue"   -> Returns(getReservationOverdueEmail(data))
      [] OTHER -> Throws(<<"Unknown notification type: ", type>>, NoTemplate)

-----------------------------------------------------------------------------
(* The notification store (CosmosNotificationRepo) *)

\* Date.prototype.toISOString: the text of a time, here "ISO" and ms marks
toISOString(date) == <<"ISO">> \o [k \in 1..date[1] |-> "+"]

\* Number.isNaN(new Date(text).getTime())
IsInvalidDate(text) == text = <<>> \/ text[1] # "ISO"

\* new Date(text), for a text that parses
NewDate(text) == <<Len(text) - 1>>

mapToDocument(notification) ==
    [ id            |-> notification.id,
      userId        |-> notification.userId,
      userEmail     |-> notification.userEmail,
      type          |-> notification.type,
      subject       |-> notification.subject,
      htmlBody      |-> notification.htmlBody,
      textBody      |-> notification.textBody,
      status        |-> notification.status,
      reservationId |-> notification.reservationId,
      createdAt     |-> toISOString(notification.createdAt),
      sentAt        |-> IF notification.sentAt = NoDate THEN Undefined
                        ELSE toISOString(notification.sentAt),
      failureReason |-> notification.failureReason,
      retryCount    |-> notification.retryCount,
      updatedAt     |-> toISOString(notification.updatedAt) ]

\* mapToDomain throws on a createdAt or updatedAt that does not parse
mapToDomainThrows(document) ==
    IsInvalidDate(document.createdAt) \/ IsInvalidDate(document.updatedAt)

mapToDomain(document) ==
    [ present       |-> TRUE,
      id            |-> document.id,
      userId        |-> document.userId,
      userEmail     |-> document.userEmail,
      type          |-> document.type,
      subject       |-> document.subject,
      htmlBody      |-> document.htmlBody,
      textBody      |-> document.textBody,
      status        |-> document.status,
      reservationId |-> document.reservationId,
      createdAt     |-> NewDate(document.createdAt),
      sentAt        |-> IF Falsy(document.sentAt) THEN NoDate ELSE NewDate(document.sentAt),
      failureReason |-> document.failureReason,
      retryCount    |-> document.retryCount,
      updatedAt     |-> NewDate(document.updatedAt) ]

Upsert_createOnly(container, document) ==
    [id \in DOMAIN container \cup {document.id} |->
        IF id \in DOMAIN container THEN container[id] ELSE document]

\* container.items.upsert(document): the container after it
Upsert(container, document) ==
    [id \in DOMAIN container \cup {document.id} |->
        IF id = document.id THEN document ELSE container[id]]

\* The history of the statuses upserted under each id
Record(log, document) ==
    [id \in DOMAIN log \cup {document.id} |->
        IF id = document.id
        THEN (IF id \in DOMAIN log THEN log[id] ELSE <<>>) \o <<document.status>>
        ELSE log[id]]

\* container.item(id, id).delete(): the container without the item
DeleteItem(container, id) ==
    [other \in DOMAIN container \ {id} |-> container[other]]

\* What the Cosmos client throws: an error with a status code
CosmosError(code, message) == [code |-> code, message |-> message]

\* The error of a read or a delete of an item that is not there
ItemNotFound == CosmosError(404, Str("Entity with the specified id does not exist"))

isNotFound_never(error) == FALSE

isNotFound_always(error) == TRUE

\* code === 404
isNotFound(error) == error.code = 404

\* new Error(`${message}: ${error.message}`)
wrapError(message, errorMessage) == <<message, ": ">> \o errorMessage

\* What a failing Cosmos call throws
StoreFaults == { Str("Service Unavailable") }

-----------------------------------------------------------------------------
(* The e-mail transport (EmailSender.sendEmail) *)

EmailSendResult(success, error) == [success |-> success, error |-> error]

NoSendResult == [success |-> FALSE, error |-> Undefined, none |-> TRUE]

\* The results sendEmail resolves to: delivered, or not delivered with an
\* error text, with an empty one, or with none.
SendResults ==
    { EmailSendResult(TRUE, Undefined),
      EmailSendResult(FALSE, Str("SMTP down")),
      EmailSendResult(FALSE, EmptyString),
      EmailSendResult(FALSE, Undefined) }

\* The results of the invocations that run beside the first one
SampleSendResults ==
    { EmailSendResult(TRUE, Undefined), EmailSendResult(FALSE, Str("SMTP down")) }

SendResultsOf(i) == IF i = 1 THEN SendResults ELSE SampleSendResults

\* What a sendEmail that rejects throws
TransportFaults == { Str("socket hang up") }

-----------------------------------------------------------------------------
(* appServices: the cached collaborators *)

Settings == { "ACS_CONNECTION_STRING", "ACS_SENDER_ADDRESS", "COSMOS_ENDPOINT" }

\* The environments: every setting present, or one of them missing.
Environments == { Settings } \cup { Settings \ {missing} : missing \in Settings }

getEmailSender_noSenderAddress(environment, cached) ==
    IF cached THEN Returns(TRUE)
    ELSE IF "ACS_CONNECTION_STRING" \notin environment
      THEN Throws(Str("ACS_CONNECTION_STRING environment variable is required"), FALSE)
    ELSE Returns(TRUE)

\* value = cachedEmailSender after the call
getEmailSender(environment, cached) ==
    IF cached THEN Returns(TRUE)
    ELSE IF "ACS_CONNECTION_STRING" \notin environment
      THEN Throws(Str("ACS_CONNECTION_STRING environment variable is required"), FALSE)
    ELSE IF "ACS_SENDER_ADDRESS" \notin environment
      THEN Throws(Str("ACS_SENDER_ADDRESS environment variable is required"), FALSE)
    ELSE Returns(TRUE)

\* value = cachedNotificationRepo after the call
getNotificationRepo(environment, cached) ==
    IF cached THEN Returns(TRUE)
    ELSE IF "COSMOS_ENDPOINT" \notin environment
      THEN Throws(Str("COSMOS_ENDPOINT environment variable is required"), FALSE)
    ELSE Returns(TRUE)

-----------------------------------------------------------------------------
(* sendReservationEmail: the pieces between its awaits *)

randomUUID_fixed(n) == <<"uuid">>

randomUUID_reused(n) == <<"uuid">> \o [k \in 1..(IF n > 1 THEN n - 1 ELSE n) |-> "-"]

\* crypto.randomUUID(): a value no other call returns; call n returns n marks
randomUUID(n) == <<"uuid">> \o [k \in 1..n |-> "-"]

SendReservationEmailResult(success, notification, error) ==
    [rejected |-> FALSE, success |-> success, notification |-> notification, error |-> error]

NoResult == [none |-> TRUE]

sendReservationEmail_rethrow(message) ==
    [rejected |-> TRUE, success |-> FALSE, notification |-> NoNotification, error |-> message]

\* The catch block: the exception's message becomes the result's error.
sendReservationEmail_catch(message) ==
    SendReservationEmailResult(FALSE, NoNotification, message)

ReservationEmailData(eventData) ==
    [ userEmail     |-> eventData.userEmail,
      reservationId |-> eventData.reservationId,
      deviceName    |-> eventData.deviceName,
      reservedAt    |-> eventData.reservedAt,
      expiresAt     |-> eventData.expiresAt,
      collectedAt   |-> eventData.collectedAt,
      returnDueAt   |-> eventData.returnDueAt,
      returnedAt    |-> eventData.returnedAt ]

\* Up to the first save: the template, then the notification record.
\* Throws what getEmailTemplate or createEmailNotification throws.
PrepareNotification(eventType, eventData, id, now) ==
    LET template == getEmailTemplate(eventType, ReservationEmailData(eventData))
        params == [ id            |-> id,
                    userId        |-> eventData.userId,
                    userEmail     |-> eventData.userEmail,
                    type          |-> eventType,
                    subject       |-> template.value.subject,
                    htmlBody      |-> template.value.htmlBody,
                    textBody      |-> template.value.textBody,
                    reservationId |-> eventData.reservationId ]
    IN  IF template.threw THEN Throws(template.message, NoNotification)
        ELSE IF validateCreateEmailNotification(params) # NoError
          THEN Throws(validateCreateEmailNotification(params).message, NoNotification)
        ELSE Returns(createEmailNotification(params, now))

\* The argument of emailSender.sendEmail
EmailContent(eventType, eventData) ==
    LET template == getEmailTemplate(eventType, ReservationEmailData(eventData)).value
    IN  [ to       |-> eventData.userEmail,
          subject  |-> template.subject,
          htmlBody |-> template.htmlBody,
          textBody |-> template.textBody ]

FailureReason_raw(sendResult) == sendResult.error

\* sendResult.error || 'Unknown error'
FailureReason(sendResult) ==
    IF Falsy(sendResult.error) THEN Str("Unknown error") ELSE sendResult.error

\* The transition the send result selects
MarkNotification(notification, sendResult, now) ==
    IF sendResult.success
    THEN markNotificationSent(notification, now)
    ELSE markNotificationFailed(notification, FailureReason(sendResult), now)

\* The value returned after the terminal save
ResultOf(notification, sendResult) ==
    IF sendResult.success
    THEN SendReservationEmailResult(TRUE, notification, Undefined)
    ELSE SendReservationEmailResult(FALSE, notification, sendResult.error)

-----------------------------------------------------------------------------
(* handleReservationEvent *)

NoType == "undefined"

\* The members every object literal inherits from Object.prototype
ObjectPrototypeMembers ==
    { "constructor", "toString", "toLocaleString", "valueOf", "hasOwnProperty",
      "isPrototypeOf", "propertyIsEnumerable", "__proto__" }

\* The value of an inherited member: a function or an object
InheritedMember == "[inherited member]"

RESERVATION_EVENT_TYPES_overdueAsExpired(eventType) ==
    CASE eventType = "reservation.created"   -> "ReservationCreated"
      [] eventType = "reservation.collected" -> "ReservationCollected"
      [] eventType = "reservation.returned"  -> "ReservationReturned"
      [] eventType = "reservation.cancelled" -> "ReservationCancelled"
      [] eventType = "reservation.expired"   -> "ReservationExpired"
      [] eventType = "reservation.overdue"   -> "ReservationExpired"
      [] eventType \in ObjectPrototypeMembers -> InheritedMember
      [] OTHER -> NoType

\* RESERVATION_EVENT_TYPES[eventType]: a property read of the object literal
RESERVATION_EVENT_TYPES(eventType) ==
    CASE eventType = "reservation.created"   -> "ReservationCreated"
      [] eventType = "reservation.collected" -> "ReservationCollected"
      [] eventType = "reservation.returned"  -> "ReservationReturned"
      [] eventType = "reservation.cancelled" -> "ReservationCancelled"
      [] eventType = "reservation.expired"   -> "ReservationExpired"
      [] eventType = "reservation.overdue"   -> "ReservationOverdue"
      [] eventType \in ObjectPrototypeMembers -> InheritedMember
      [] OTHER -> NoType

MappedEventTypes ==
    { "reservation.created", "reservation.collected", "reservation.returned",
      "reservation.cancelled", "reservation.expired", "reservation.overdue" }

MissingRequiredField_orUserId(eventData) ==
    Falsy(eventData.userEmail) \/ Falsy(eventData.reservationId) \/ Falsy(eventData.userId)

MissingRequiredField_emailOnly(eventData) == Falsy(eventData.userEmail)

\* !eventData.userEmail, then !eventData.reservationId: either one skips the event
MissingRequiredField(eventData) ==
    Falsy(eventData.userEmail) \/ Falsy(eventData.reservationId)

handleReservationEvent_rethrow(message) == "threw"

\* The handler's catch block logs the error and returns.
handleReservationEvent_catch(message) == "returned"

-----------------------------------------------------------------------------
(* Events *)

ReservationEventPayload(userEmail, reservationId, userId) ==
    [ reservationId |-> reservationId,
      userId        |-> userId,
      userEmail     |-> userEmail,
      deviceName    |-> Undefined,
      reservedAt    |-> Undefined,
      expiresAt     |-> Undefined,
      collectedAt   |-> Undefined,
      returnDueAt   |-> Undefined,
      returnedAt    |-> Undefined ]

NoData == ReservationEventPayload(Undefined, Undefined, Undefined)

\* An EventGridEvent: hasData is FALSE when event.data is undefined
EventGridEvent(eventType, hasData, data) ==
    [id |-> Str("evt-1"), eventType |-> eventType, hasData |-> hasData, data |-> data]

NoEvent == EventGridEvent("", FALSE, NoData)

PlainEmail  == <<"a", "@", "b", ".", "c">>
PaddedEmail == <<" ", "A", "@", "B", ".", "c", " ">>
NotAnEmail  == <<"n", "o", "t", "-", "a", "n", "-", "e", "m", "a", "i", "l">>
NoTldEmail  == <<"a", "@", "b">>
Blank       == <<" ">>

PaddedId == <<" ", "n", "1", " ">>
PaddedSubject == <<" ", "S", "u", "b", "j", "e", "c", "t">>
PaddedText == <<"T", "e", "x", "t", " ">>

UserEmails == { Undefined, EmptyString, Blank, NotAnEmail, NoTldEmail, PlainEmail, PaddedEmail }
ReservationIds == { Undefined, EmptyString, Blank, <<"R", "1">> }
UserIds == { Undefined, Blank, <<"U", "1">> }
EventTypes == MappedEventTypes \cup { "reservation.updated", "constructor", "toString" }

\* Every event over the value sets above
AllEvents ==
    { EventGridEvent(t, TRUE, ReservationEventPayload(e, r, u)) :
        t \in EventTypes, e \in UserEmails, r \in ReservationIds, u \in UserIds }
    \cup { EventGridEvent(t, FALSE, NoData) : t \in EventTypes }

\* The events of the invocations that run beside the first one
SampleEvents ==
    { EventGridEvent("reservation.created", TRUE,
          ReservationEventPayload(PlainEmail, <<"R", "1">>, <<"U", "1">>)),
      EventGridEvent("reservation.created", TRUE,
          ReservationEventPayload(NotAnEmail, <<"R", "1">>, <<"U", "1">>)),
      EventGridEvent("constructor", TRUE,
          ReservationEventPayload(PlainEmail, <<"R", "1">>, <<"U", "1">>)) }

EventsOf(i) == IF i = 1 THEN AllEvents ELSE SampleEvents

-----------------------------------------------------------------------------
(* Invocations *)

\* new Date() is read twice in an invocation, for the record it creates and
\* for the mark it applies, and the clock does not go back in between.  No
\* operation compares the times of two notifications, so the times of an
\* invocation are counted from its own start.
StartTime(i) == i

\* The milliseconds between the two reads
Elapsed == {0, 1}

\* The invocations beside the first one take a millisecond
ElapsedOf(i) == IF i = 1 THEN Elapsed ELSE {1}

Idle ==
    [ pc               |-> "idle",
      event            |-> NoEvent,
      notificationType |-> NoType,
      invoked          |-> FALSE,         \* sendReservationEmail was called
      calls            |-> <<>>,          \* the types it was called with, in order
      outcome          |-> "none",        \* how the handler ended
      id               |-> Undefined,     \* what randomUUID() returned
      notification     |-> NoNotification,\* let notification
      sendResult       |-> NoSendResult,  \* const sendResult
      result           |-> NoResult,      \* what sendReservationEmail returned
      raised           |-> Undefined,     \* the exception it caught
      history          |-> <<>>,          \* its calls and their outcomes
      sent             |-> <<>> ]         \* the sendEmail calls: [to, id]

\* The handler ends with the orchestrator's result: a rejected promise lands
\* in the handler's catch block, a result of either kind is only logged.
Finish(invocation, result) ==
    [invocation EXCEPT
        !.pc = "done",
        !.result = result,
        !.outcome = IF result.rejected
                    THEN handleReservationEvent_catch(result.error)
                    ELSE "returned"]

\* The orchestrator's try block threw message.
Caught(invocation, message) ==
    Finish([invocation EXCEPT !.raised = message], sendReservationEmail_catch(message))

\* handleReservationEvent up to its first await: the lookup, the checks of
\* the payload, the collaborators, then sendReservationEmail up to the call
\* of notificationRepo.save.
HandleEvent(i, event) ==
        LET now == StartTime(i)
            notificationType == RESERVATION_EVENT_TYPES(event.eventType)
            started == [Idle EXCEPT !.event = event, !.notificationType = notificationType]
            skipped == [started EXCEPT !.pc = "done", !.outcome = "returned"]
            sender == getEmailSender(env, cachedEmailSender)
            repo == getNotificationRepo(env, cachedNotificationRepo)
            id == randomUUID(i)
            prepared == PrepareNotification(notificationType, event.data, id, now)
            rendered == ~getEmailTemplate(notificationType,
                                          ReservationEmailData(event.data)).threw
            called == [started EXCEPT !.invoked = TRUE,
                                      !.calls = <<notificationType>>,
                                      !.id = IF rendered THEN id ELSE Undefined]
        IN  /\ UNCHANGED <<entity, rendering, reply, delivery, env, store, written>>
            /\ IF notificationType = NoType
               THEN /\ inv' = [inv EXCEPT ![i] = skipped]
                    /\ UNCHANGED <<cachedEmailSender, cachedNotificationRepo>>
               ELSE IF ~event.hasData
               THEN \* eventData.userEmail of undefined: a TypeError
                    /\ inv' = [inv EXCEPT ![i] =
                          [started EXCEPT !.pc = "done",
                              !.outcome = handleReservationEvent_catch(
                                  Str("Cannot read properties of undefined"))]]
                    /\ UNCHANGED <<cachedEmailSender, cachedNotificationRepo>>
               ELSE IF MissingRequiredField(event.data)
               THEN /\ inv' = [inv EXCEPT ![i] = skipped]
                    /\ UNCHANGED <<cachedEmailSender, cachedNotificationRepo>>
               ELSE IF sender.threw
               THEN /\ inv' = [inv EXCEPT ![i] =
                          [started EXCEPT !.pc = "done",
                              !.outcome = handleReservationEvent_catch(sender.message)]]
                    /\ UNCHANGED <<cachedEmailSender, cachedNotificationRepo>>
               ELSE IF repo.threw
               THEN /\ inv' = [inv EXCEPT ![i] =
                          [started EXCEPT !.pc = "done",
                              !.outcome = handleReservationEvent_catch(repo.message)]]
                    /\ cachedEmailSender' = sender.value
                    /\ UNCHANGED cachedNotificationRepo
               ELSE /\ cachedEmailSender' = sender.value
                    /\ cachedNotificationRepo' = repo.value
                    /\ IF prepared.threw
                       THEN inv' = [inv EXCEPT ![i] = Caught(called, prepared.message)]
                       ELSE inv' = [inv EXCEPT ![i] =
                              [called EXCEPT !.pc = "savePending",
                                             !.notification = prepared.value,
                                             !.history = <<"save Pending">>]]

\* An invocation starts with an event.
handleReservationEvent(i) ==
    /\ inv[i].pc = "idle"
    /\ \E event \in EventsOf(i) : HandleEvent(i, event)

\* An invocation starts with a sample event.
handleSampleEvent(i) ==
    /\ inv[i].pc = "idle"
    /\ \E event \in SampleEvents : HandleEvent(i, event)

\* notificationRepo.save resolves: the upsert is applied, the stored document
\* is mapped back; save rethrows, wrapped, what mapToDomain throws.
SaveReturns(i, status) ==
    LET self == inv[i]
        document == mapToDocument(self.notification)
        container == Upsert(store, document)
        resource == container[document.id]
    IN  /\ self.notification.status = status
        /\ store' = container
        /\ written' = Record(written, document)
        /\ UNCHANGED <<entity, rendering, reply, delivery, env, cachedEmailSender, cachedNotificationRepo>>
        /\ IF mapToDomainThrows(resource)
           THEN inv' = [inv EXCEPT ![i] =
                    Caught([self EXCEPT !.history = @ \o <<"save threw">>],
                           wrapError("Failed to save EmailNotification",
                                     Str("Invalid createdAt value from Cosmos DB")))]
           ELSE IF status = Pending
           THEN \* ... and emailSender.sendEmail is called
                inv' = [inv EXCEPT ![i] =
                    [self EXCEPT
                        !.pc = "send",
                        !.notification = mapToDomain(resource),
                        !.history = @ \o <<"saved", "sendEmail">>,
                        !.sent = @ \o << [ to |-> EmailContent(self.notificationType,
                                                               self.event.data).to,
                                           id |-> resource.id ] >>]]
           ELSE \* ... and the result is returned
                inv' = [inv EXCEPT ![i] =
                    Finish([self EXCEPT !.notification = mapToDomain(resource),
                                        !.history = @ \o <<"saved">>],
                           ResultOf(mapToDomain(resource), self.sendResult))]

SavePendingReturns_dedup(i) ==
    /\ inv[i].pc = "savePending"
    /\ IF \E id \in DOMAIN store :
             /\ store[id].reservationId = inv[i].notification.reservationId
             /\ store[id].type = inv[i].notification.type
       THEN /\ inv' = [inv EXCEPT ![i] =
                    Finish(inv[i], SendReservationEmailResult(TRUE, inv[i].notification,
                                                              Undefined))]
            /\ UNCHANGED <<entity, rendering, reply, delivery, env, cachedEmailSender,
                           cachedNotificationRepo, store, written>>
       ELSE SaveReturns(i, Pending)

\* The first save resolves.
SavePendingReturns(i) ==
    /\ inv[i].pc = "savePending"
    /\ SaveReturns(i, Pending)

\* notificationRepo.save rejects: the container is as it was.
SaveThrows(i) ==
    /\ \E fault \in StoreFaults :
         inv' = [inv EXCEPT ![i] =
            Caught([inv[i] EXCEPT !.history = @ \o <<"save threw">>],
                   wrapError("Failed to save EmailNotification", fault))]
    /\ UNCHANGED <<entity, rendering, reply, delivery, env, cachedEmailSender, cachedNotificationRepo, store, written>>

\* The upsert resolves without a resource: the document is in the container
\* and save throws 'Upsert returned no resource', wrapped.
SaveUpsertsNoResource(i) ==
    /\ store' = Upsert(store, mapToDocument(inv[i].notification))
    /\ written' = Record(written, mapToDocument(inv[i].notification))
    /\ inv' = [inv EXCEPT ![i] =
            Caught([inv[i] EXCEPT !.history = @ \o <<"upserted", "save threw">>],
                   wrapError("Failed to save EmailNotification",
                             Str("Upsert returned no resource")))]
    /\ UNCHANGED <<entity, rendering, reply, delivery, env, cachedEmailSender, cachedNotificationRepo>>

\* The first save throws for want of a resource.
SavePendingNoResource(i) ==
    /\ inv[i].pc = "savePending"
    /\ SaveUpsertsNoResource(i)

SavePendingThrows_thenSend(i) ==
    /\ inv[i].pc = "savePending"
    /\ inv' = [inv EXCEPT ![i] =
            [inv[i] EXCEPT
                !.pc = "send",
                !.history = @ \o <<"save threw", "sendEmail">>,
                !.sent = @ \o << [ to |-> EmailContent(inv[i].notificationType,
                                                       inv[i].event.data).to,
                                   id |-> inv[i].notification.id ] >>]]
    /\ UNCHANGED <<entity, rendering, reply, delivery, env, cachedEmailSender, cachedNotificationRepo, store, written>>

\* The first save rejects.
SavePendingThrows(i) ==
    /\ inv[i].pc = "savePending"
    /\ SaveThrows(i)

SendEmailReturns_noTerminalSave(i) ==
    /\ inv[i].pc = "send"
    /\ \E sendResult \in SendResultsOf(i), elapsed \in ElapsedOf(i) :
         inv' = [inv EXCEPT ![i] =
            Finish([inv[i] EXCEPT
                        !.sendResult = sendResult,
                        !.notification = MarkNotification(inv[i].notification, sendResult,
                                             inv[i].notification.createdAt[1] + elapsed),
                        !.history = @ \o <<IF sendResult.success THEN "delivered"
                                           ELSE "not delivered">>],
                   ResultOf(MarkNotification(inv[i].notification, sendResult,
                                inv[i].notification.createdAt[1] + elapsed), sendResult))]
    /\ UNCHANGED <<entity, rendering, reply, delivery, env, cachedEmailSender, cachedNotificationRepo, store, written>>

SendEmailReturns_noFailedSave(i) ==
    /\ inv[i].pc = "send"
    /\ \E sendResult \in SendResultsOf(i), elapsed \in ElapsedOf(i) :
         LET marked == MarkNotification(inv[i].notification, sendResult,
                                        inv[i].notification.createdAt[1] + elapsed)
         IN  inv' = [inv EXCEPT ![i] =
                IF sendResult.success
                THEN [inv[i] EXCEPT !.pc = "saveTerminal",
                                    !.sendResult = sendResult,
                                    !.notification = marked,
                                    !.history = @ \o <<"delivered", "save Sent">>]
                ELSE Finish([inv[i] EXCEPT !.sendResult = sendResult,
                                           !.notification = marked,
                                           !.history = @ \o <<"not delivered">>],
                            ResultOf(marked, sendResult))]
    /\ UNCHANGED <<entity, rendering, reply, delivery, env, cachedEmailSender, cachedNotificationRepo, store, written>>

SendEmailReturns_retry(i) ==
    /\ inv[i].pc = "send"
    /\ \E sendResult \in SendResultsOf(i), elapsed \in ElapsedOf(i) :
         inv' = [inv EXCEPT ![i] =
            IF sendResult.success
            THEN [inv[i] EXCEPT
                    !.pc = "saveTerminal",
                    !.sendResult = sendResult,
                    !.notification = MarkNotification(inv[i].notification, sendResult,
                                         inv[i].notification.createdAt[1] + elapsed),
                    !.history = @ \o <<"delivered", "save Sent">>]
            ELSE [inv[i] EXCEPT
                    !.history = @ \o <<"not delivered", "sendEmail">>,
                    !.sent = @ \o << [ to |-> EmailContent(inv[i].notificationType,
                                                           inv[i].event.data).to,
                                       id |-> inv[i].notification.id ] >>]]
    /\ UNCHANGED <<entity, rendering, reply, delivery, env, cachedEmailSender, cachedNotificationRepo, store, written>>

\* emailSender.sendEmail resolves: the notification is marked and the
\* terminal save is called.
SendEmailReturns(i) ==
    /\ inv[i].pc = "send"
    /\ \E sendResult \in SendResultsOf(i), elapsed \in ElapsedOf(i) :
         inv' = [inv EXCEPT ![i] =
            [inv[i] EXCEPT
                !.pc = "saveTerminal",
                !.sendResult = sendResult,
                !.notification = MarkNotification(inv[i].notification, sendResult,
                                     inv[i].notification.createdAt[1] + elapsed),
                !.history = @ \o <<IF sendResult.success THEN "delivered" ELSE "not delivered",
                                   IF sendResult.success THEN "save Sent" ELSE "save Failed">>]]
    /\ UNCHANGED <<entity, rendering, reply, delivery, env, cachedEmailSender, cachedNotificationRepo, store, written>>

SendEmailThrows_marksFailed(i) ==
    /\ inv[i].pc = "send"
    /\ \E fault \in TransportFaults :
         /\ inv' = [inv EXCEPT ![i] =
                Caught([inv[i] EXCEPT !.history = @ \o <<"send threw">>], fault)]
         /\ store' = Upsert(store, mapToDocument(
                markNotificationFailed(inv[i].notification, fault,
                                       inv[i].notification.createdAt[1])))
    /\ UNCHANGED <<entity, rendering, reply, delivery, env, cachedEmailSender,
                   cachedNotificationRepo, written>>

SendEmailThrows_removesPending(i) ==
    /\ inv[i].pc = "send"
    /\ \E fault \in TransportFaults :
         inv' = [inv EXCEPT ![i] =
            Caught([inv[i] EXCEPT !.history = @ \o <<"send threw">>], fault)]
    /\ store' = [id \in DOMAIN store \ {inv[i].id} |-> store[id]]
    /\ UNCHANGED <<entity, rendering, reply, delivery, env, cachedEmailSender,
                   cachedNotificationRepo, written>>

\* emailSender.sendEmail rejects.
SendEmailThrows(i) ==
    /\ inv[i].pc = "send"
    /\ \E fault \in TransportFaults :
         inv' = [inv EXCEPT ![i] =
            Caught([inv[i] EXCEPT !.history = @ \o <<"send threw">>], fault)]
    /\ UNCHANGED <<entity, rendering, reply, delivery, env, cachedEmailSender, cachedNotificationRepo, store, written>>

\* The terminal save resolves.
SaveTerminalReturns(i) ==
    /\ inv[i].pc = "saveTerminal"
    /\ \E status \in {Sent, Failed} : SaveReturns(i, status)

\* The terminal save rejects.
SaveTerminalThrows(i) ==
    /\ inv[i].pc = "saveTerminal"
    /\ SaveThrows(i)

\* The terminal save throws for want of a resource.
SaveTerminalNoResource(i) ==
    /\ inv[i].pc = "saveTerminal"
    /\ SaveUpsertsNoResource(i)

-----------------------------------------------------------------------------
(* The system *)

\* The handler creates, renders and stores through its invocations; the
\* variables of the direct callers below stay as they start.
NoEntity == [stage |-> "none"]
NoRendering == [stage |-> "none"]
NoReply == [stage |-> "none"]
NoDelivery == [stage |-> "none"]

Init ==
    /\ env \in Environments
    /\ cachedEmailSender = FALSE
    /\ cachedNotificationRepo = FALSE
    /\ store = <<>>
    /\ written = <<>>
    /\ inv = [i \in Invocations |-> Idle]
    /\ delivery = NoDelivery
    /\ entity = NoEntity
    /\ rendering = NoRendering
    /\ reply = NoReply

Next ==
    \E i \in Invocations :
        \/ handleReservationEvent(i)
        \/ SavePendingReturns(i)
        \/ SavePendingThrows(i)
        \/ SavePendingNoResource(i)
        \/ SendEmailReturns(i)
        \/ SendEmailThrows(i)
        \/ SaveTerminalReturns(i)
        \/ SaveTerminalThrows(i)
        \/ SaveTerminalNoResource(i)

Spec == Init /\ [][Next]_vars

\* An awaited call settles: while a save or a send of some invocation can
\* return, one of them does, unless it throws first.
AwaitedCallReturns ==
    \E i \in Invocations :
        \/ SavePendingReturns(i)
        \/ SendEmailReturns(i)
        \/ SaveTerminalReturns(i)

\* The invocations progress is followed for: sample events in a configured
\* environment, every outcome of their saves and sends
FairInit == Init /\ env = Settings

FairNext ==
    \E i \in Invocations :
        \/ handleSampleEvent(i)
        \/ SavePendingReturns(i)
        \/ SavePendingThrows(i)
        \/ SavePendingNoResource(i)
        \/ SendEmailReturns(i)
        \/ SendEmailThrows(i)
        \/ SaveTerminalReturns(i)
        \/ SaveTerminalThrows(i)
        \/ SaveTerminalNoResource(i)

FairSpec == FairInit /\ [][FairNext]_vars /\ WF_vars(AwaitedCallReturns)

-----------------------------------------------------------------------------
(* The store called directly: save, getById and delete in any order, by one *)
(* caller that awaits each call.  written is the handler's history and is   *)
(* not kept here.                                                           *)

RepoIds == { <<"n", "1">>, <<"n", "2">> }

\* A notification as createEmailNotification returns it
NewNotification(id, textBody) ==
    createEmailNotification(
        [ id            |-> id,
          userId        |-> <<"U", "1">>,
          userEmail     |-> PlainEmail,
          type          |-> "ReservationCreated",
          subject       |-> PaddedSubject,
          htmlBody      |-> Str("<p>Reserved</p>"),
          textBody      |-> textBody,
          reservationId |-> <<"R", "1">> ],
        StartTime(1))

\* The notifications a caller saves: new, sent and failed ones
RepoNotifications ==
    UNION { { NewNotification(id, PaddedText),
              NewNotification(id, Undefined),
              markNotificationSent(NewNotification(id, PaddedText), StartTime(1) + 1),
              markNotificationFailed(NewNotification(id, Undefined), Str("SMTP down"),
                                     StartTime(1) + 1) } : id \in RepoIds }

\* A technical failure of the Cosmos call
CosmosFaults == { CosmosError(503, fault) : fault \in StoreFaults }

\* What a save or a query may fail with: the 404 error is one of them
AnyFaults == CosmosFaults \cup { ItemNotFound }

\* The user ids and the statuses a caller lists by
ListedUserIds == { <<"U", "1">>, <<"U", "2">> }
ListedStatuses == { Pending, Sent, Failed }

\* SELECT * FROM c WHERE ... ORDER BY c.createdAt DESC, fetched whole: the
\* documents under ids, latest createdAt first, documents of one createdAt
\* in any order.  ISO texts of these dates compare as their lengths do.
QueryResults(container, ids) ==
    LET n == Cardinality(ids)
        orders == { order \in [1..n -> ids] :
                      /\ \A k, l \in 1..n : k # l => order[k] # order[l]
                      /\ \A k, l \in 1..n :
                            k < l => Len(container[order[k]].createdAt)
                                       >= Len(container[order[l]].createdAt) }
    IN  { [k \in 1..n |-> container[order[k]]] : order \in orders }

\* (resources ?? []).map(mapToDomain), what mapToDomain throws rethrown
\* wrapped with the message of the operation
ListCompletion(message, resources) ==
    IF \E k \in 1..Len(resources) : mapToDomainThrows(resources[k])
    THEN Throws(wrapError(message, Str("Invalid createdAt value from Cosmos DB")), <<>>)
    ELSE Returns([k \in 1..Len(resources) |-> mapToDomain(resources[k])])

\* The caller after a call: what it called, how the call ended, the
\* container before it, and latest: id -> the notification most recently
\* saved under it and not deleted since
Replied(op, id, completion, failed, before, latest) ==
    [ stage   |-> "ready",
      op      |-> op,
      id      |-> id,
      threw   |-> completion.threw,
      message |-> completion.message,
      value   |-> completion.value,
      failed  |-> failed,
      before  |-> before,
      latest  |-> latest ]

RepoInit ==
    /\ env = Settings
    /\ cachedEmailSender = FALSE
    /\ cachedNotificationRepo = FALSE
    /\ store = <<>>
    /\ written = <<>>
    /\ inv = [i \in Invocations |-> Idle]
    /\ delivery = NoDelivery
    /\ entity = NoEntity
    /\ rendering = NoRendering
    /\ reply = Replied("none", Undefined, Returns(NoNotification), FALSE, <<>>, <<>>)

\* save(notification), the upsert succeeding: the stored document is mapped
\* back, and what mapToDomain throws is rethrown wrapped
CallSave ==
    \E notification \in RepoNotifications :
        LET document == mapToDocument(notification)
            container == Upsert(store, document)
            resource == container[document.id]
            latest == [id \in DOMAIN reply.latest \cup {notification.id} |->
                          IF id = notification.id THEN notification ELSE reply.latest[id]]
        IN  /\ store' = container
            /\ reply' = Replied("save", notification.id,
                    IF mapToDomainThrows(resource)
                    THEN Throws(wrapError("Failed to save EmailNotification",
                                    Str("Invalid createdAt value from Cosmos DB")),
                                NoNotification)
                    ELSE Returns(mapToDomain(resource)),
                    FALSE, store, latest)
            /\ UNCHANGED <<delivery, env, cachedEmailSender, cachedNotificationRepo, written, inv,
                           entity, rendering>>

\* save(notification), the upsert resolving without a resource: the document
\* is in the container and save throws
CallSaveNoResource ==
    \E notification \in RepoNotifications :
        /\ store' = Upsert(store, mapToDocument(notification))
        /\ reply' = Replied("save", notification.id,
                Throws(wrapError("Failed to save EmailNotification",
                                 Str("Upsert returned no resource")),
                       NoNotification),
                TRUE, store,
                [id \in DOMAIN reply.latest \cup {notification.id} |->
                    IF id = notification.id THEN notification ELSE reply.latest[id]])
        /\ UNCHANGED <<delivery, env, cachedEmailSender, cachedNotificationRepo, written, inv,
                       entity, rendering>>

\* save(notification), the upsert failing
CallSaveFails ==
    \E notification \in RepoNotifications, fault \in AnyFaults :
        /\ reply' = Replied("save", notification.id,
                Throws(wrapError("Failed to save EmailNotification", fault.message),
                       NoNotification),
                TRUE, store, reply.latest)
        /\ UNCHANGED <<delivery, env, cachedEmailSender, cachedNotificationRepo, store, written, inv,
                       entity, rendering>>

\* getById(id): the item read has a resource, has none, or throws; a read of
\* a missing item gives no resource or throws the 404 error, by the client
CallGetById ==
    \E id \in RepoIds, throwsWhenMissing \in BOOLEAN :
        /\ reply' = Replied("getById", id,
                IF id \in DOMAIN store
                THEN IF mapToDomainThrows(store[id])
                     THEN Throws(wrapError("Failed to get EmailNotification by id",
                                     Str("Invalid createdAt value from Cosmos DB")),
                                 NoNotification)
                     ELSE Returns(mapToDomain(store[id]))
                ELSE IF throwsWhenMissing /\ ~isNotFound(ItemNotFound)
                     THEN Throws(wrapError("Failed to get EmailNotification by id",
                                     ItemNotFound.message),
                                 NoNotification)
                     ELSE Returns(NoNotification),
                FALSE, store, reply.latest)
        /\ UNCHANGED <<delivery, env, cachedEmailSender, cachedNotificationRepo, store, written, inv,
                       entity, rendering>>

\* getById(id), the read failing
CallGetByIdFails ==
    \E id \in RepoIds, fault \in CosmosFaults :
        /\ reply' = Replied("getById", id,
                IF isNotFound(fault) THEN Returns(NoNotification)
                ELSE Throws(wrapError("Failed to get EmailNotification by id", fault.message),
                            NoNotification),
                TRUE, store, reply.latest)
        /\ UNCHANGED <<delivery, env, cachedEmailSender, cachedNotificationRepo, store, written, inv,
                       entity, rendering>>

\* listByUserId(userId), the query succeeding
CallListByUserId ==
    \E userId \in ListedUserIds :
        \E resources \in QueryResults(store,
                              { id \in DOMAIN store : store[id].userId = userId }) :
            /\ reply' = Replied("listByUserId", userId,
                    ListCompletion("Failed to list EmailNotifications by userId", resources),
                    FALSE, store, reply.latest)
            /\ UNCHANGED <<delivery, env, cachedEmailSender, cachedNotificationRepo, store,
                           written, inv, entity, rendering>>

\* listByUserId(userId), the query failing
CallListByUserIdFails ==
    \E userId \in ListedUserIds, fault \in AnyFaults :
        /\ reply' = Replied("listByUserId", userId,
                Throws(wrapError("Failed to list EmailNotifications by userId", fault.message),
                       <<>>),
                TRUE, store, reply.latest)
        /\ UNCHANGED <<delivery, env, cachedEmailSender, cachedNotificationRepo, store,
                       written, inv, entity, rendering>>

\* What the query of listByStatus(status) may fetch
StatusQuery(status) ==
    QueryResults(store, { id \in DOMAIN store : store[id].status = status })

\* How listByStatus ends when its query fails with fault
ListByStatusThrows(fault) ==
    Throws(wrapError("Failed to list EmailNotifications by status", fault.message), <<>>)

\* listByStatus(status), the query succeeding
CallListByStatus ==
    \E status \in ListedStatuses :
        \E resources \in StatusQuery(status) :
            /\ reply' = Replied("listByStatus", status,
                    ListCompletion("Failed to list EmailNotifications by status", resources),
                    FALSE, store, reply.latest)
            /\ UNCHANGED <<delivery, env, cachedEmailSender, cachedNotificationRepo, store,
                           written, inv, entity, rendering>>

\* listByStatus(status), the query failing
CallListByStatusFails ==
    \E status \in ListedStatuses, fault \in AnyFaults :
        /\ reply' = Replied("listByStatus", status, ListByStatusThrows(fault),
                            TRUE, store, reply.latest)
        /\ UNCHANGED <<delivery, env, cachedEmailSender, cachedNotificationRepo, store,
                       written, inv, entity, rendering>>

\* listPending() is listByStatus(NotificationStatus.Pending)
CallListPending ==
    \E resources \in StatusQuery(Pending) :
        /\ reply' = Replied("listPending", Pending,
                ListCompletion("Failed to list EmailNotifications by status", resources),
                FALSE, store, reply.latest)
        /\ UNCHANGED <<delivery, env, cachedEmailSender, cachedNotificationRepo, store,
                       written, inv, entity, rendering>>

\* listPending(), the query failing
CallListPendingFails ==
    \E fault \in AnyFaults :
        /\ reply' = Replied("listPending", Pending, ListByStatusThrows(fault),
                            TRUE, store, reply.latest)
        /\ UNCHANGED <<delivery, env, cachedEmailSender, cachedNotificationRepo, store,
                       written, inv, entity, rendering>>

\* delete(id): the item is deleted; the delete of a missing item throws the
\* 404 error, which the catch block takes for done
CallDelete ==
    \E id \in RepoIds :
        /\ store' = DeleteItem(store, id)
        /\ reply' = Replied("delete", id,
                IF id \in DOMAIN store \/ isNotFound(ItemNotFound)
                THEN Returns(NoNotification)
                ELSE Throws(wrapError("Failed to delete EmailNotification",
                                ItemNotFound.message),
                            NoNotification),
                FALSE, store,
                [other \in DOMAIN reply.latest \ {id} |-> reply.latest[other]])
        /\ UNCHANGED <<delivery, env, cachedEmailSender, cachedNotificationRepo, written, inv,
                       entity, rendering>>

\* delete(id), the delete failing
CallDeleteFails ==
    \E id \in RepoIds, fault \in CosmosFaults :
        /\ reply' = Replied("delete", id,
                IF isNotFound(fault) THEN Returns(NoNotification)
                ELSE Throws(wrapError("Failed to delete EmailNotification", fault.message),
                            NoNotification),
                TRUE, store, reply.latest)
        /\ UNCHANGED <<delivery, env, cachedEmailSender, cachedNotificationRepo, store, written, inv,
                       entity, rendering>>

RepoNext ==
    \/ CallSave
    \/ CallSaveNoResource
    \/ CallSaveFails
    \/ CallGetById
    \/ CallGetByIdFails
    \/ CallDelete
    \/ CallDeleteFails
    \/ CallListByUserId
    \/ CallListByUserIdFails
    \/ CallListByStatus
    \/ CallListByStatusFails
    \/ CallListPending
    \/ CallListPendingFails

RepoSpec == RepoInit /\ [][RepoNext]_vars

-----------------------------------------------------------------------------
(* AcsEmailSender.sendEmail called directly: the send is started, then      *)
(* polled until it is done; either await can throw.                         *)

\* KnownEmailSendStatus: the status of a send operation
KnownEmailSendStatus == { "NotStarted", "Running", "Succeeded", "Failed", "Canceled" }

\* What an await can throw: an Error with a message, or any other value
Thrown(isError, text) == [isError |-> isError, text |-> text]

SendFaults ==
    { Thrown(TRUE, Str("Request failed with status 401")),
      Thrown(TRUE, EmptyString),
      Thrown(FALSE, Str("ECONNRESET")),
      Thrown(FALSE, Undefined) }

ErrorMessage_orUndefined(thrown) == IF thrown.isError THEN thrown.text ELSE Undefined

\* error instanceof Error ? error.message : String(error)
ErrorMessage(thrown) ==
    IF thrown.isError THEN thrown.text
    ELSE IF thrown.text = Undefined THEN Str("undefined")
    ELSE thrown.text

\* The contents a caller sends
EmailContents ==
    [ to       : UserEmails \ { Undefined },
      subject  : { PaddedSubject },
      htmlBody : { Str("<p>Reserved</p>") },
      textBody : { Undefined, PaddedText } ]

\* { success: true, messageId }
SendSucceeded(messageId) ==
    [success |-> TRUE, error |-> Undefined, messageId |-> messageId]

\* { success: false, error }
SendFailed(error) ==
    [success |-> FALSE, error |-> error, messageId |-> Undefined]

\* What sendEmail returns for the final status of the send operation
ResultOfStatus(status, messageId) ==
    IF status = "Succeeded"
    THEN SendSucceeded(messageId)
    ELSE SendFailed(<<"Email send failed with status: ", status>>)

SenderInit ==
    /\ env = Settings
    /\ cachedEmailSender = FALSE
    /\ cachedNotificationRepo = FALSE
    /\ store = <<>>
    /\ written = <<>>
    /\ inv = [i \in Invocations |-> Idle]
    /\ entity = NoEntity
    /\ rendering = NoRendering
    /\ reply = NoReply
    /\ \E content \in EmailContents :
          delivery = [ stage     |-> "beginSend",
                       content   |-> content,
                       recipient |-> Undefined,  \* recipients.to[0].address
                       status    |-> "none",     \* result.status
                       caught    |-> "none",     \* the await that threw
                       thrown    |-> Thrown(FALSE, Undefined),
                       outcome   |-> "pending",  \* "returned" or "threw"
                       result    |-> NoSendResult ]

\* await this.client.beginSend(message) resolves to a poller
BeginSendReturns ==
    /\ delivery.stage = "beginSend"
    /\ delivery' = [delivery EXCEPT !.stage = "pollUntilDone",
                                    !.recipient = delivery.content.to]
    /\ UNCHANGED <<env, cachedEmailSender, cachedNotificationRepo, store, written, inv,
                   entity, rendering, reply>>

\* await this.client.beginSend(message) throws: the catch block returns
BeginSendThrows ==
    /\ delivery.stage = "beginSend"
    /\ \E thrown \in SendFaults :
          delivery' = [delivery EXCEPT !.stage = "done",
                                      !.recipient = delivery.content.to,
                                      !.caught = "beginSend",
                                      !.thrown = thrown,
                                      !.outcome = "returned",
                                      !.result = SendFailed(ErrorMessage(thrown))]
    /\ UNCHANGED <<env, cachedEmailSender, cachedNotificationRepo, store, written, inv,
                   entity, rendering, reply>>

\* await poller.pollUntilDone() resolves to the result of the operation
PollUntilDoneReturns ==
    /\ delivery.stage = "pollUntilDone"
    /\ \E status \in KnownEmailSendStatus :
          delivery' = [delivery EXCEPT !.stage = "done",
                                      !.status = status,
                                      !.outcome = "returned",
                                      !.result = ResultOfStatus(status, Str("message-1"))]
    /\ UNCHANGED <<env, cachedEmailSender, cachedNotificationRepo, store, written, inv,
                   entity, rendering, reply>>

\* await poller.pollUntilDone() throws: the catch block returns
PollUntilDoneThrows ==
    /\ delivery.stage = "pollUntilDone"
    /\ \E thrown \in SendFaults :
          delivery' = [delivery EXCEPT !.stage = "done",
                                      !.caught = "pollUntilDone",
                                      !.thrown = thrown,
                                      !.outcome = "returned",
                                      !.result = SendFailed(ErrorMessage(thrown))]
    /\ UNCHANGED <<env, cachedEmailSender, cachedNotificationRepo, store, written, inv,
                   entity, rendering, reply>>

SenderNext ==
    \/ BeginSendReturns
    \/ BeginSendThrows
    \/ PollUntilDoneReturns
    \/ PollUntilDoneThrows

SenderSpec == SenderInit /\ [][SenderNext]_vars

-----------------------------------------------------------------------------
(* The templates called directly: getEmailTemplate on any type and data.    *)

\* The values a caller can pass for the type
TemplateTypes == NotificationTypes \cup { NoType, InheritedMember, "ReservationUpdated" }

\* ReservationEmailData, each optional field absent or present
ReservationEmailDataValues ==
    [ userEmail     : { PlainEmail },
      reservationId : { <<"R", "1">> },
      deviceName    : { Undefined, EmptyString, Str("Laptop 7") },
      reservedAt    : { Undefined, Str("2024-01-01T09:00") },
      expiresAt     : { Undefined, Str("2024-01-02T09:00") },
      collectedAt   : { Undefined, Str("2024-01-01T10:00") },
      returnDueAt   : { Undefined, Str("2024-01-08T10:00") },
      returnedAt    : { Undefined, Str("2024-01-07T16:00") } ]

TemplateInit ==
    /\ env = Settings
    /\ cachedEmailSender = FALSE
    /\ cachedNotificationRepo = FALSE
    /\ store = <<>>
    /\ written = <<>>
    /\ inv = [i \in Invocations |-> Idle]
    /\ delivery = NoDelivery
    /\ entity = NoEntity
    /\ reply = NoReply
    /\ \E type \in TemplateTypes, data \in ReservationEmailDataValues :
          rendering = [ stage    |-> "call",
                        type     |-> type,
                        data     |-> data,
                        template |-> NoTemplate,
                        message  |-> Undefined ]

\* getEmailTemplate(type, data): returns the template or throws
CallGetEmailTemplate ==
    /\ rendering.stage = "call"
    /\ LET completion == getEmailTemplate(rendering.type, rendering.data)
       IN  rendering' = [rendering EXCEPT
               !.stage = IF completion.threw THEN "threw" ELSE "returned",
               !.template = completion.value,
               !.message = completion.message]
    /\ UNCHANGED <<delivery, env, cachedEmailSender, cachedNotificationRepo, store, written, inv,
                   entity, reply>>

TemplateNext == CallGetEmailTemplate

TemplateSpec == TemplateInit /\ [][TemplateNext]_vars

-----------------------------------------------------------------------------
(* The entity called directly: createEmailNotification on any parameters,   *)
(* then markNotificationSent and markNotificationFailed in a chain.         *)

\* The number of marks applied to one notification
MaxMarks == 3

\* CreateEmailNotificationParams, each field missing, blank or usable
CreateEmailNotificationParams ==
    [ id            : { Undefined, Blank, PaddedId },
      userId        : UserIds,
      userEmail     : UserEmails,
      type          : { "ReservationCreated", "ReservationOverdue", NoType },
      subject       : { Undefined, EmptyString, PaddedSubject },
      htmlBody      : { Undefined, Blank, Str("<p>Reserved</p>") },
      textBody      : { Undefined, PaddedText },
      reservationId : ReservationIds ]

\* The reasons markNotificationFailed is given
FailureReasons == { Str("SMTP down"), Str("Unknown error") }

EntityInit ==
    /\ env = Settings
    /\ cachedEmailSender = FALSE
    /\ cachedNotificationRepo = FALSE
    /\ store = <<>>
    /\ written = <<>>
    /\ inv = [i \in Invocations |-> Idle]
    /\ delivery = NoDelivery
    /\ rendering = NoRendering
    /\ reply = NoReply
    /\ \E params \in CreateEmailNotificationParams :
          entity = [ stage        |-> "params",
                     params       |-> params,
                     error        |-> NoError,
                     notification |-> NoNotification,
                     argument     |-> NoNotification,  \* what the last mark was given
                     marks        |-> <<>> ]

\* createEmailNotification(params): throws what the validation throws, or
\* returns the notification
CallCreateEmailNotification ==
    /\ entity.stage = "params"
    /\ entity' =
          IF validateCreateEmailNotification(entity.params) # NoError
          THEN [entity EXCEPT !.stage = "rejected",
                              !.error = validateCreateEmailNotification(entity.params)]
          ELSE [entity EXCEPT !.stage = "created",
                              !.notification =
                                  createEmailNotification(entity.params, StartTime(1))]
    /\ UNCHANGED <<delivery, env, cachedEmailSender, cachedNotificationRepo, store, written, inv,
                   rendering, reply>>

\* markNotificationSent(notification), some time after the last change
CallMarkNotificationSent ==
    /\ entity.stage = "created"
    /\ Len(entity.marks) < MaxMarks
    /\ \E elapsed \in Elapsed :
          entity' = [entity EXCEPT
              !.notification = markNotificationSent(entity.notification,
                                   entity.notification.updatedAt[1] + elapsed),
              !.argument = entity.notification,
              !.marks = @ \o <<Sent>>]
    /\ UNCHANGED <<delivery, env, cachedEmailSender, cachedNotificationRepo, store, written, inv,
                   rendering, reply>>

\* markNotificationFailed(notification, reason), some time after the last change
CallMarkNotificationFailed ==
    /\ entity.stage = "created"
    /\ Len(entity.marks) < MaxMarks
    /\ \E elapsed \in Elapsed, reason \in FailureReasons :
          entity' = [entity EXCEPT
              !.notification = markNotificationFailed(entity.notification, reason,
                                   entity.notification.updatedAt[1] + elapsed),
              !.argument = entity.notification,
              !.marks = @ \o <<Failed>>]
    /\ UNCHANGED <<delivery, env, cachedEmailSender, cachedNotificationRepo, store, written, inv,
                   rendering, reply>>

EntityNext ==
    \/ CallCreateEmailNotification
    \/ CallMarkNotificationSent
    \/ CallMarkNotificationFailed

EntitySpec == EntityInit /\ [][EntityNext]_vars

-----------------------------------------------------------------------------
(* Properties *)

Done(i) == inv[i].pc = "done"

Count(history, entries) == Cardinality({k \in 1..Len(history) : history[k] \in entries})

Prefix(history, n) == SubSeq(history, 1, IF Len(history) < n THEN Len(history) ELSE n)

\* The history of an invocation that passed validation and met no exception
Delivered == <<"save Pending", "saved", "sendEmail", "delivered", "save Sent", "saved">>
NotDelivered == <<"save Pending", "saved", "sendEmail", "not delivered", "save Failed", "saved">>

\* The document stored for invocation i, when there is one
Stored(i) == store[inv[i].id]
HasStored(i) == inv[i].id \in DOMAIN store

\* C1: sendEmail is called only after the first save has returned, for this
\* notification and with status Pending; when the first save throws, the
\* invocation never calls sendEmail.
C1_SendAfterPendingSave ==
    \A i \in Invocations :
        /\ inv[i].sent # <<>> =>
              /\ Prefix(inv[i].history, 3) = <<"save Pending", "saved", "sendEmail">>
              /\ inv[i].id \in DOMAIN written
              /\ written[inv[i].id][1] = Pending
              /\ inv[i].sent[1].id = inv[i].id
        /\ Prefix(inv[i].history, 2) = <<"save Pending", "save threw">> =>
              /\ inv[i].sent = <<>>
              /\ Done(i)

C1_Witness ==
    \E i, j \in Invocations :
        /\ inv[i].sent # <<>>
        /\ inv[j].history = <<"save Pending", "save threw">>

\* C2 as stated: every invocation of sendReservationEmail makes exactly one
\* Pending save, exactly one terminal save and at most one sendEmail call,
\* whatever the template, the validation, the store and the transport do
\* (stated for the calls whose eventType is a NotificationType, as the
\* signature has it).
C2_ExactlyOneOfEachSave ==
    \A i \in Invocations :
        (Done(i) /\ inv[i].invoked /\ inv[i].notificationType \in NotificationTypes) =>
            /\ Count(inv[i].history, {"save Pending"}) = 1
            /\ Count(inv[i].history, {"save Sent", "save Failed"}) = 1
            /\ Len(inv[i].sent) <= 1

\* C2 as amended: at most one Pending save, at most one terminal save and at
\* most one sendEmail call; the terminal save is called only after the
\* Pending save and sendEmail have returned, for the same id; and when
\* validation passes and nothing throws there is exactly one of each, in
\* the order Pending save, sendEmail, terminal save.
C2_AtMostOneOfEachSave ==
    \A i \in Invocations :
        LET history == inv[i].history
            prepared == PrepareNotification(inv[i].notificationType, inv[i].event.data,
                                            randomUUID(i), StartTime(i))
        IN  /\ Count(history, {"save Pending"}) <= 1
            /\ Count(history, {"save Sent", "save Failed"}) <= 1
            /\ Count(history, {"sendEmail"}) = Len(inv[i].sent)
            /\ Len(inv[i].sent) <= 1
            /\ Count(history, {"save Sent", "save Failed"}) = 1 =>
                  /\ Prefix(history, 5) \in {Prefix(Delivered, 5), Prefix(NotDelivered, 5)}
                  /\ inv[i].notification.id = inv[i].id
            /\ (Done(i) /\ inv[i].invoked /\ ~prepared.threw
                    /\ Count(history, {"save threw", "send threw"}) = 0) =>
                  /\ history \in {Delivered, NotDelivered}
                  /\ HasStored(i)
                  /\ written[inv[i].id] \in {<<Pending, Sent>>, <<Pending, Failed>>}

C2_Witness ==
    \E i, j \in Invocations :
        /\ Done(i) /\ inv[i].history = NotDelivered
        /\ Done(j) /\ inv[j].invoked /\ inv[j].history = <<>>

\* C3: one event yields at most one sendEmail call, whatever the transport
\* and the store answer, and no notification id is ever sent twice: a record
\* left Failed or Pending is not sent again.
C3_AtMostOneDeliveryAttempt ==
    /\ \A i \in Invocations : Len(inv[i].sent) <= 1
    /\ \A id \in DOMAIN store :
          Cardinality({ <<i, k>> \in Invocations \X (1..2) :
                          k <= Len(inv[i].sent) /\ inv[i].sent[k].id = id }) <= 1

C3_Witness ==
    \E i, j \in Invocations :
        /\ Done(i) /\ inv[i].history = NotDelivered /\ Stored(i).status = Failed
        /\ Done(j) /\ inv[j].history = <<"save Pending", "saved", "sendEmail", "send threw">>
        /\ Stored(j).status = Pending

\* C4: when validation and both saves succeed and sendEmail reports
\* success, the result is success with the notification, and the record
\* stored under its id is Sent, has sentAt and has retryCount 0.
C4_DeliveredIsStoredSent ==
    \A i \in Invocations :
        (Done(i) /\ inv[i].history = Delivered) =>
            /\ inv[i].result.success
            /\ inv[i].result.notification.present
            /\ inv[i].result.notification.status = Sent
            /\ inv[i].result.notification.sentAt # NoDate
            /\ inv[i].result.notification.id \in DOMAIN store
            /\ store[inv[i].result.notification.id].status = Sent
            /\ ~Falsy(store[inv[i].result.notification.id].sentAt)
            /\ store[inv[i].result.notification.id].retryCount = 0

C4_Witness ==
    \E i \in Invocations :
        Done(i) /\ inv[i].history = Delivered /\ inv[i].sendResult.success

\* The record stored for a delivery that failed with error text e
StoredFailed(i, reason) ==
    /\ inv[i].result.notification.id \in DOMAIN store
    /\ store[inv[i].result.notification.id].status = Failed
    /\ store[inv[i].result.notification.id].failureReason = reason
    /\ store[inv[i].result.notification.id].retryCount = 1

HasEmailShape(userEmail) ==
    LET s == trim(userEmail)
    IN  \E at \in 2..Len(s), dot \in 1..Len(s) :
            /\ s[at] = "@"
            /\ s[dot] = "."
            /\ at + 1 < dot /\ dot < Len(s)
            /\ \A k \in 1..Len(s) : ~IsWhitespace(s[k]) /\ (s[k] = "@" => k = at)

UserEmailMessages ==
    { Str("Notification userEmail must be a non-empty string."),
      Str("Notification userEmail must be a valid email address.") }

\* What a rejected userEmail leaves behind: a failure, nothing saved, nothing sent
NothingPersisted(i) ==
    /\ ~inv[i].result.success
    /\ ~inv[i].result.notification.present
    /\ Count(inv[i].history, {"save Pending", "save Sent", "save Failed"}) = 0
    /\ inv[i].sent = <<>>
    /\ randomUUID(i) \notin DOMAIN store

\* C6 as stated: a userEmail that has not the shape local@domain.tld makes
\* sendReservationEmail return failure with the userEmail validation
\* message, with no save and no send (stated for the calls whose eventType
\* is a NotificationType).
C6_BadEmailGivesEmailMessage ==
    \A i \in Invocations :
        (Done(i) /\ inv[i].invoked /\ inv[i].notificationType \in NotificationTypes
            /\ ~HasEmailShape(inv[i].event.data.userEmail)) =>
            /\ NothingPersisted(i)
            /\ inv[i].result.error \in UserEmailMessages

\* C6 as amended: such a userEmail makes sendReservationEmail return failure
\* with no save and no send; the error is the userEmail validation message
\* when the eventType is a NotificationType and userId is a non-blank
\* string, and the message of the earlier failing step otherwise.
C6_BadEmailIsRejected ==
    \A i \in Invocations :
        (Done(i) /\ inv[i].invoked /\ ~HasEmailShape(inv[i].event.data.userEmail)) =>
            /\ NothingPersisted(i)
            /\ IF inv[i].notificationType \notin NotificationTypes
               THEN inv[i].result.error = <<"Unknown notification type: ", inv[i].notificationType>>
               ELSE IF Falsy(inv[i].event.data.userId) \/ trim(inv[i].event.data.userId) = EmptyString
               THEN inv[i].result.error = Str("Notification userId must be a non-empty string.")
               ELSE inv[i].result.error \in UserEmailMessages

C6_Witness ==
    \E i, j \in Invocations :
        /\ Done(i) /\ inv[i].invoked /\ inv[i].event.data.userEmail = NotAnEmail
        /\ inv[i].result.error = Str("Notification userEmail must be a valid email address.")
        /\ Done(j) /\ inv[j].invoked /\ inv[j].event.data.userEmail = NoTldEmail
        /\ inv[j].result.error = Str("Notification userId must be a non-empty string.")

\* What save wraps: the fault of the upsert, or its own 'no resource' error
SaveErrors == StoreFaults \cup { Str("Upsert returned no resource") }

\* C7: sendReservationEmail never rejects; an exception of the template
\* selection, of createEmailNotification, of either save or of sendEmail
\* ends the invocation with {success: false, error: its message} and no
\* notification.
C7_ExceptionsBecomeFailureResults ==
    \A i \in Invocations :
        LET history == inv[i].history
            template == getEmailTemplate(inv[i].notificationType,
                                         ReservationEmailData(inv[i].event.data))
            failure(message) ==
                /\ Done(i)
                /\ inv[i].result = [rejected |-> FALSE, success |-> FALSE,
                                    notification |-> NoNotification, error |-> message]
        IN  /\ inv[i].result # NoResult => ~inv[i].result.rejected
            /\ (inv[i].invoked /\ template.threw) => failure(template.message)
            /\ (Done(i) /\ inv[i].invoked /\ ~template.threw /\ history = <<>>) =>
                  \E field \in {"id", "userId", "userEmail", "subject", "htmlBody",
                                 "reservationId", "type"} :
                      \E message \in {Str("Notification " \o field \o " must be a non-empty string."),
                                       Str("Notification userEmail must be a valid email address.")} :
                          failure(message)
            /\ (history # <<>> /\ history[Len(history)] = "save threw") =>
                  \E fault \in SaveErrors :
                      failure(<<"Failed to save EmailNotification", ": ">> \o fault)
            /\ (history # <<>> /\ history[Len(history)] = "send threw") =>
                  \E fault \in TransportFaults : failure(fault)

C7_Witness ==
    \E i, j \in Invocations :
        /\ Done(i) /\ inv[i].history = <<"save Pending", "saved", "sendEmail", "send threw">>
        /\ inv[i].result.error = Str("socket hang up")
        /\ Done(j) /\ Prefix(inv[j].history, 5) = Prefix(Delivered, 5)
        /\ inv[j].history[6] = "save threw"

\* C8: under every id the store is written Pending, then at most once more,
\* Sent or Failed; no invocation applies both marks, and a record that is
\* Sent or Failed is not written again.
C8_PendingThenOneTerminalWrite ==
    /\ \A id \in DOMAIN written :
          written[id] \in {<<Pending>>, <<Pending, Sent>>, <<Pending, Failed>>}
    /\ \A i \in Invocations :
          Count(inv[i].history, {"save Sent", "save Failed"}) <= 1

C8_Witness ==
    \E i, j \in Invocations :
        /\ HasStored(i) /\ written[inv[i].id] = <<Pending, Sent>>
        /\ HasStored(j) /\ written[inv[j].id] = <<Pending, Failed>>

\* C9: handleReservationEvent returns normally for every event and every
\* outcome of the orchestrator and of its collaborators.
C9_HandlerNeverThrows ==
    \A i \in Invocations :
        /\ inv[i].outcome # "threw"
        /\ Done(i) => inv[i].outcome = "returned"

C9_Witness ==
    \E i, j \in Invocations :
        /\ Done(i) /\ ~inv[i].event.hasData /\ inv[i].event.eventType \in MappedEventTypes
        /\ inv[i].outcome = "returned"
        /\ Done(j) /\ inv[j].invoked /\ ~inv[j].result.success /\ inv[j].outcome = "returned"

\* C10: an event whose eventType is not one of the six keys of the table
\* never reaches sendReservationEmail, and causes no save and no send.
C10_UnmappedTypeIsIgnored ==
    \A i \in Invocations :
        (inv[i].pc # "idle" /\ inv[i].event.eventType \notin MappedEventTypes) =>
            /\ ~inv[i].invoked
            /\ inv[i].history = <<>>
            /\ inv[i].sent = <<>>

\* An event of a mapped type whose data is there with both fields non-empty
HasRequiredFields(i) ==
    /\ inv[i].pc # "idle"
    /\ inv[i].event.eventType \in MappedEventTypes
    /\ inv[i].event.hasData
    /\ ~Falsy(inv[i].event.data.userEmail)
    /\ ~Falsy(inv[i].event.data.reservationId)

\* C11: an event of a mapped type whose data has no userEmail or no
\* reservationId (absent or empty) does not reach sendReservationEmail:
\* nothing is saved, nothing is sent, and the handler returns normally.
C11_MissingFieldSkipsTheEvent ==
    \A i \in Invocations :
        ( /\ inv[i].pc # "idle"
          /\ inv[i].event.eventType \in MappedEventTypes
          /\ \/ ~inv[i].event.hasData
             \/ Falsy(inv[i].event.data.userEmail)
             \/ Falsy(inv[i].event.data.reservationId) ) =>
            /\ Done(i)
            /\ inv[i].outcome = "returned"
            /\ ~inv[i].invoked
            /\ inv[i].calls = <<>>
            /\ inv[i].history = <<>>
            /\ inv[i].sent = <<>>
            /\ randomUUID(i) \notin DOMAIN store

C11_Witness ==
    \E i \in Invocations :
        /\ Done(i)
        /\ inv[i].event.eventType \in MappedEventTypes
        /\ inv[i].event.hasData
        /\ inv[i].event.data.userEmail = PlainEmail
        /\ inv[i].event.data.reservationId = EmptyString
        /\ inv[i].outcome = "returned"
        /\ ~inv[i].invoked

\* The notification type the specification's table gives an event type
TypeOfEvent(eventType) ==
    CASE eventType = "reservation.created"   -> "ReservationCreated"
      [] eventType = "reservation.collected" -> "ReservationCollected"
      [] eventType = "reservation.returned"  -> "ReservationReturned"
      [] eventType = "reservation.cancelled" -> "ReservationCancelled"
      [] eventType = "reservation.expired"   -> "ReservationExpired"
      [] eventType = "reservation.overdue"   -> "ReservationOverdue"

\* C12 as stated: an event of a mapped type with a non-empty userEmail and a
\* non-empty reservationId makes the handler invoke sendReservationEmail
\* exactly once, with the type the table maps the event type to.
C12_MappedEventInvokesOnce ==
    \A i \in Invocations :
        HasRequiredFields(i) => inv[i].calls = <<TypeOfEvent(inv[i].event.eventType)>>

\* C12 as amended: it does so when the collaborators can be obtained, that
\* is when ACS_CONNECTION_STRING, ACS_SENDER_ADDRESS and COSMOS_ENDPOINT are
\* set; with one of them missing sendReservationEmail is not invoked at all.
C12_ConfiguredMappedEventInvokesOnce ==
    \A i \in Invocations :
        HasRequiredFields(i) =>
            IF Settings \subseteq env
            THEN /\ inv[i].invoked
                 /\ inv[i].calls = <<TypeOfEvent(inv[i].event.eventType)>>
            ELSE /\ ~inv[i].invoked
                 /\ inv[i].calls = <<>>
                 /\ inv[i].outcome = "returned"

C12_Witness ==
    \E i \in Invocations :
        /\ HasRequiredFields(i)
        /\ Settings \subseteq env
        /\ inv[i].event.eventType = "reservation.overdue"
        /\ inv[i].calls = <<"ReservationOverdue">>
        /\ Done(i)
        /\ inv[i].result.success

\* createdAt as createEmailNotification set it, updatedAt at or after it
KeepsCreatedAt(notification, createdAt) ==
    /\ notification.createdAt = <<createdAt>>
    /\ \E elapsed \in Elapsed : notification.updatedAt = <<createdAt + elapsed>>
    /\ notification.status = Pending => notification.updatedAt = notification.createdAt
    /\ notification.status = Sent => notification.sentAt = notification.updatedAt

\* C16: createdAt never changes after creation: the notification an
\* invocation holds before and after markNotificationSent or
\* markNotificationFailed, the record stored under its id and the form the
\* store returns all carry the createdAt createEmailNotification set; a mark
\* sets updatedAt to the time of its call, which is not before createdAt.
C16_CreatedAtIsImmutable ==
    \A i \in Invocations :
        /\ inv[i].notification.present =>
                KeepsCreatedAt(inv[i].notification, StartTime(i))
        /\ (Done(i) /\ inv[i].invoked /\ inv[i].result.notification.present) =>
                KeepsCreatedAt(inv[i].result.notification, StartTime(i))
        /\ randomUUID(i) \in DOMAIN store =>
                /\ store[randomUUID(i)].createdAt = <<"ISO">> \o [k \in 1..StartTime(i) |-> "+"]
                /\ Len(store[randomUUID(i)].updatedAt) >= Len(store[randomUUID(i)].createdAt)

C16_Witness ==
    \E i \in Invocations :
        /\ Done(i) /\ inv[i].invoked
        /\ inv[i].result.notification.present
        /\ inv[i].result.notification.status = Failed
        /\ inv[i].result.notification.createdAt = <<StartTime(i)>>
        /\ inv[i].result.notification.updatedAt = <<StartTime(i) + 1>>
        /\ HasStored(i) /\ Stored(i).status = Failed

-----------------------------------------------------------------------------
(* Properties of the entity, under EntitySpec *)

\* A string that is missing, empty or all whitespace
IsBlank(value) ==
    value = Undefined \/ \A k \in 1..Len(value) : IsWhitespace(value[k])

UpperCase == { "A", "B", "C", "R", "U" }

\* The text without the whitespace around it and with its capitals lowered
IsNormalised(text, input) ==
    /\ text # <<>>
    /\ ~IsWhitespace(text[1]) /\ ~IsWhitespace(text[Len(text)])
    /\ \A k \in 1..Len(text) : text[k] \notin UpperCase
    /\ \E before \in 0..Len(input) :
          /\ before + Len(text) <= Len(input)
          /\ \A k \in 1..Len(input) :
                IF k <= before \/ k > before + Len(text)
                THEN IsWhitespace(input[k])
                ELSE text[k - before] = LowerOf(input[k])

\* C13: for valid parameters createEmailNotification returns a notification
\* with status Pending, retryCount 0, createdAt equal to updatedAt, no sentAt,
\* no failureReason, and the input userEmail trimmed and lower-cased.
C13_CreatedIsPendingAndNormalised ==
    (entity.stage = "created" /\ entity.marks = <<>>) =>
        /\ entity.notification.status = Pending
        /\ entity.notification.retryCount = 0
        /\ entity.notification.createdAt = entity.notification.updatedAt
        /\ entity.notification.createdAt # NoDate
        /\ entity.notification.sentAt = NoDate
        /\ entity.notification.failureReason = Undefined
        /\ IsNormalised(entity.notification.userEmail, entity.params.userEmail)

C13_Witness ==
    /\ entity.stage = "created"
    /\ entity.marks = <<>>
    /\ entity.params.userEmail = PaddedEmail
    /\ entity.notification.userEmail = PlainEmail
    /\ entity.notification.status = Pending

\* The checks in the order the specification gives them
ValidationOrder ==
    << "id", "userId", "userEmail (non-empty)", "userEmail (format)",
       "subject", "htmlBody", "reservationId", "type" >>

CheckFails(check, params) ==
    CASE check = "id"                    -> IsBlank(params.id)
      [] check = "userId"                -> IsBlank(params.userId)
      [] check = "userEmail (non-empty)" -> IsBlank(params.userEmail)
      [] check = "userEmail (format)"    -> ~HasEmailShape(params.userEmail)
      [] check = "subject"               -> IsBlank(params.subject)
      [] check = "htmlBody"              -> IsBlank(params.htmlBody)
      [] check = "reservationId"         -> IsBlank(params.reservationId)
      [] check = "type"                  -> params.type \notin NotificationTypes

FailingChecks(params) ==
    { k \in 1..Len(ValidationOrder) : CheckFails(ValidationOrder[k], params) }

FirstFailingCheck(params) ==
    ValidationOrder[CHOOSE k \in FailingChecks(params) :
                        \A other \in FailingChecks(params) : k <= other]

\* The error each check throws
ErrorOfCheck(check) ==
    CASE check = "id" ->
            NotificationError("id", "Notification id must be a non-empty string.")
      [] check = "userId" ->
            NotificationError("userId", "Notification userId must be a non-empty string.")
      [] check = "userEmail (non-empty)" ->
            NotificationError("userEmail", "Notification userEmail must be a non-empty string.")
      [] check = "userEmail (format)" ->
            NotificationError("userEmail", "Notification userEmail must be a valid email address.")
      [] check = "subject" ->
            NotificationError("subject", "Notification subject must be a non-empty string.")
      [] check = "htmlBody" ->
            NotificationError("htmlBody", "Notification htmlBody must be a non-empty string.")
      [] check = "reservationId" ->
            NotificationError("reservationId", "Notification reservationId must be a non-empty string.")
      [] check = "type" ->
            NotificationError("type", "Notification type must be one of: ...")

\* C14: with several invalid fields createEmailNotification fails with the
\* error of the first invalid one in the order id, userId, userEmail
\* (non-empty), userEmail (format), subject, htmlBody, reservationId, type;
\* it succeeds only when no check fails.
C14_FirstInvalidFieldIsNamed ==
    entity.stage # "params" =>
        IF FailingChecks(entity.params) = {}
        THEN entity.stage = "created" /\ entity.error = NoError
        ELSE /\ entity.stage = "rejected"
             /\ entity.notification = NoNotification
             /\ entity.error = ErrorOfCheck(FirstFailingCheck(entity.params))

C14_Witness ==
    /\ entity.stage = "rejected"
    /\ Cardinality(FailingChecks(entity.params)) >= 3
    /\ FirstFailingCheck(entity.params) = "userEmail (format)"
    /\ entity.error.field = "userEmail"

\* C15: retryCount is the number of markNotificationFailed applications in
\* the chain: 0 until the first one, one more with each, and unchanged by
\* markNotificationSent.
C15_RetryCountCountsFailures ==
    entity.stage = "created" =>
        entity.notification.retryCount = Count(entity.marks, {Failed})

C15_Witness ==
    /\ entity.stage = "created"
    /\ entity.marks = <<Failed, Sent, Failed>>
    /\ entity.notification.retryCount = 2

-----------------------------------------------------------------------------
(* Properties of the templates, under TemplateSpec *)

IsText(value) == value # Undefined /\ value # EmptyString

IsTemplate(template) ==
    IsText(template.subject) /\ IsText(template.htmlBody) /\ IsText(template.textBody)

\* C17: getEmailTemplate returns a template for each of the six notification
\* types and throws the unknown-type error for every other value; it never
\* returns without a template.
C17_TemplateOrUnknownType ==
    rendering.stage # "call" =>
        IF rendering.type \in { "ReservationCreated", "ReservationCollected",
                                "ReservationReturned", "ReservationCancelled",
                                "ReservationExpired", "ReservationOverdue" }
        THEN /\ rendering.stage = "returned"
             /\ IsTemplate(rendering.template)
        ELSE /\ rendering.stage = "threw"
             /\ rendering.message = <<"Unknown notification type: ", rendering.type>>
             /\ ~IsTemplate(rendering.template)

C17_Witness ==
    /\ rendering.stage = "threw"
    /\ rendering.type = "ReservationUpdated"
    /\ rendering.message = <<"Unknown notification type: ", "ReservationUpdated">>

\* The labels of the lines of each optional field, in the html and text bodies
LabelsOf(field) ==
    CASE field = "deviceName"  -> { "<strong>Device:</strong>", "Device:" }
      [] field = "reservedAt"  -> { "<strong>Reserved At:</strong>", "Reserved At:" }
      [] field = "expiresAt"   -> { "<strong>Collection Deadline:</strong>", "Collection Deadline:",
                                    "<strong>Expired At:</strong>", "Expired At:" }
      [] field = "collectedAt" -> { "<strong>Collected At:</strong>", "Collected At:" }
      [] field = "returnDueAt" -> { "<strong>Return Due:</strong>", "Return Due:",
                                    "<strong>Was Due:</strong>", "Was Due:" }
      [] field = "returnedAt"  -> { "<strong>Returned At:</strong>", "Returned At:" }

OptionalFields ==
    { "deviceName", "reservedAt", "expiresAt", "collectedAt", "returnDueAt", "returnedAt" }

Chunks(text) == { text[k] : k \in 1..Len(text) }

\* C18: for each notification type and every combination of present and
\* absent optional fields the template has a non-empty subject, htmlBody and
\* textBody, and the labelled line of an optional field is in the html and
\* text bodies only when the field is present in the data.
C18_OptionalLinesOnlyWhenPresent ==
    rendering.stage = "returned" =>
        /\ IsTemplate(rendering.template)
        /\ \A field \in OptionalFields :
              (LabelsOf(field) \cap (Chunks(rendering.template.htmlBody)
                                     \cup Chunks(rendering.template.textBody)) # {})
                  => IsText(rendering.data[field])

C18_Witness ==
    /\ rendering.stage = "returned"
    /\ rendering.type = "ReservationOverdue"
    /\ rendering.data.deviceName = Undefined
    /\ IsText(rendering.data.returnDueAt)
    /\ "Device:" \notin Chunks(rendering.template.textBody)
    /\ "<strong>Device:</strong>" \notin Chunks(rendering.template.htmlBody)
    /\ "Was Due:" \in Chunks(rendering.template.textBody)
    /\ "<strong>Was Due:</strong>" \in Chunks(rendering.template.htmlBody)

-----------------------------------------------------------------------------
(* Properties of the store, under RepoSpec *)

\* C19: the store is a map keyed by id: after any sequence of save and delete
\* calls getById(id) returns a notification equal field for field to the one
\* most recently saved under id and not deleted since (null when there is
\* none), save returns what it saved, and an id has a single record.
C19_StoreIsAMapById ==
    /\ DOMAIN store = DOMAIN reply.latest
    /\ (reply.op = "getById" /\ ~reply.failed) =>
          /\ ~reply.threw
          /\ reply.value = IF reply.id \in DOMAIN reply.latest
                            THEN reply.latest[reply.id]
                            ELSE NoNotification
    /\ (reply.op = "save" /\ ~reply.failed) =>
          /\ ~reply.threw
          /\ reply.value = reply.latest[reply.id]
          /\ \A other \in DOMAIN reply.before \ {reply.id} :
                other \in DOMAIN store /\ store[other] = reply.before[other]

C19_Witness ==
    /\ reply.op = "getById"
    /\ ~reply.threw
    /\ reply.id \in DOMAIN reply.latest
    /\ reply.value = reply.latest[reply.id]
    /\ reply.value.status = Sent
    /\ reply.value.sentAt = <<StartTime(1) + 1>>
    /\ reply.value.createdAt = <<StartTime(1)>>
    /\ Cardinality(DOMAIN store) = 2

\* C20: delete is idempotent: deleting an id that is not in the store ends
\* without error and leaves the store as it was, and after delete(id) the id
\* is not in the store, so that getById(id) returns null.
C20_DeleteIsIdempotent ==
    /\ (reply.op = "delete" /\ ~reply.failed) =>
          /\ ~reply.threw
          /\ reply.id \notin DOMAIN store
          /\ \A other \in DOMAIN reply.before \ {reply.id} :
                other \in DOMAIN store /\ store[other] = reply.before[other]
          /\ reply.id \notin DOMAIN reply.before => store = reply.before
    /\ (reply.op = "getById" /\ ~reply.failed /\ reply.id \notin DOMAIN reply.latest) =>
          /\ ~reply.threw
          /\ reply.value = NoNotification

C20_Witness ==
    /\ reply.op = "delete"
    /\ ~reply.threw
    /\ reply.id \notin DOMAIN reply.before
    /\ reply.before # <<>>
    /\ store = reply.before

-----------------------------------------------------------------------------
(* Properties of AcsEmailSender.sendEmail, under SenderSpec *)

\* C23: AcsEmailSender.sendEmail never throws for a delivery failure: it
\* returns success=true exactly when the send operation ends with status
\* Succeeded, and success=false with an error string for every other final
\* status and for every exception raised while starting or polling the send.
C23_SenderReturnsFailures ==
    /\ delivery.outcome # "threw"
    /\ delivery.stage = "done" =>
          /\ delivery.outcome = "returned"
          /\ delivery.result.success <=>
                (delivery.caught = "none" /\ delivery.status = "Succeeded")
          /\ ~delivery.result.success =>
                /\ delivery.result.error # Undefined
                /\ delivery.caught = "none" =>
                      delivery.result.error =
                          <<"Email send failed with status: ", delivery.status>>
                /\ (delivery.caught # "none" /\ delivery.thrown.isError) =>
                      delivery.result.error = delivery.thrown.text

C23_Witness ==
    /\ delivery.stage = "done"
    /\ delivery.caught = "pollUntilDone"
    /\ ~delivery.thrown.isError
    /\ delivery.outcome = "returned"
    /\ ~delivery.result.success
    /\ delivery.result.error = Str("undefined")

-----------------------------------------------------------------------------
(* Properties of concurrent invocations, under Spec *)

\* The outcomes of a save that put the document in the container
Upserts == {"saved", "upserted"}

\* The status an invocation's own calls leave under its id
StatusByOwnHistory(history) ==
    IF Count(history, Upserts) = 0 THEN "none"
    ELSE IF Count(history, Upserts) = 1 THEN Pending
    ELSE IF Count(history, {"delivered"}) = 1 THEN Sent
    ELSE Failed

\* C21: with the store and transport calls of several invocations
\* interleaved in any order, each invocation saves only under its own fresh
\* id, none overwrites or holds the record of another, and the status stored
\* for a notification follows from its own invocation's calls alone.
C21_InvocationsAreIndependent ==
    /\ \A id \in DOMAIN store :
          \E i \in Invocations : inv[i].id = id /\ Count(inv[i].history, Upserts) > 0
    /\ \A i \in Invocations :
          /\ \A j \in Invocations \ {i} :
                inv[i].id # Undefined => inv[i].id # inv[j].id
          /\ inv[i].notification.present => inv[i].notification.id = inv[i].id
          /\ (inv[i].id \in DOMAIN store) <=> (Count(inv[i].history, Upserts) > 0)
          /\ inv[i].id \in DOMAIN store =>
                /\ store[inv[i].id].status = StatusByOwnHistory(inv[i].history)
                /\ store[inv[i].id].type = inv[i].notificationType
                /\ Len(written[inv[i].id]) = Count(inv[i].history, Upserts)

C21_Witness ==
    \E i, j \in Invocations :
        /\ i # j
        /\ Done(i) /\ Done(j)
        /\ HasStored(i) /\ Stored(i).status = Sent
        /\ HasStored(j) /\ Stored(j).status = Failed
        /\ Stored(i).type # Stored(j).type

\* C22: the core never deletes a notification: no step of the handler or of
\* sendReservationEmail takes an id out of the store, so the set of stored
\* ids never shrinks.
C22_StoredIdsNeverShrink ==
    [][DOMAIN store \subseteq DOMAIN store']_vars

C22_Witness ==
    \E i, j \in Invocations :
        /\ i # j
        /\ Done(i) /\ Done(j)
        /\ inv[i].history = <<"save Pending", "saved", "sendEmail", "send threw">>
        /\ HasStored(i) /\ HasStored(j)
        /\ Cardinality(DOMAIN store) = 2

-----------------------------------------------------------------------------
(* More properties of the entity, under EntitySpec *)

\* C24: over every sequence of createEmailNotification, markNotificationSent
\* and markNotificationFailed each change of status is Pending to Sent or
\* Pending to Failed: no operation moves a notification out of Sent or out
\* of Failed.
C24_StatusOnlyLeavesPending ==
    [][ ( /\ entity.stage = "created"
          /\ entity'.notification.status # entity.notification.status )
        => entity.notification.status = Pending ]_vars

\* The fields neither mark touches
KeptFields ==
    { "present", "id", "userId", "userEmail", "type", "subject", "htmlBody", "textBody",
      "reservationId", "createdAt" }

\* C26: the marks are pure: the argument is as it was, markNotificationSent
\* changes only status, sentAt and updatedAt, markNotificationFailed changes
\* only status, failureReason, retryCount and updatedAt, and every other
\* field of the result is the argument's.
C26_MarksChangeOnlyTheirFields ==
    (entity.stage = "created" /\ entity.marks # <<>>) =>
        LET result == entity.notification
            argument == entity.argument
            last == entity.marks[Len(entity.marks)]
        IN  /\ DOMAIN result = DOMAIN argument
            /\ \A field \in KeptFields : result[field] = argument[field]
            /\ result.status = last
            /\ result.updatedAt # NoDate
            /\ last = Sent =>
                  /\ result.sentAt = result.updatedAt
                  /\ result.failureReason = argument.failureReason
                  /\ result.retryCount = argument.retryCount
            /\ last = Failed =>
                  /\ result.failureReason \in FailureReasons
                  /\ result.retryCount = argument.retryCount + 1
                  /\ result.sentAt = argument.sentAt
            /\ argument.status = IF Len(entity.marks) = 1 THEN Pending
                                  ELSE entity.marks[Len(entity.marks) - 1]

C26_Witness ==
    /\ entity.stage = "created"
    /\ entity.marks = <<Failed, Sent>>
    /\ entity.argument.status = Failed
    /\ entity.notification.status = Sent
    /\ entity.notification.failureReason = entity.argument.failureReason
    /\ entity.notification.failureReason # Undefined

-----------------------------------------------------------------------------
(* More properties of the invocations, under Spec *)

\* C25: every record the orchestrator saves has an id, userId, userEmail,
\* subject, htmlBody and reservationId that are not empty once trimmed, a
\* userEmail of the shape local@domain.tld, and one of the six types.
C25_StoredRecordsAreValid ==
    \A id \in DOMAIN store :
        LET document == store[id]
        IN  /\ ~IsBlank(document.id)
            /\ ~IsBlank(document.userId)
            /\ ~IsBlank(document.userEmail)
            /\ ~IsBlank(document.subject)
            /\ ~IsBlank(document.htmlBody)
            /\ ~IsBlank(document.reservationId)
            /\ HasEmailShape(document.userEmail)
            /\ document.type \in
                  { "ReservationCreated", "ReservationCollected", "ReservationReturned",
                    "ReservationCancelled", "ReservationExpired", "ReservationOverdue" }

C25_Witness ==
    \E i \in Invocations :
        /\ HasStored(i)
        /\ inv[i].event.data.userEmail = PaddedEmail
        /\ Stored(i).userEmail = PlainEmail
        /\ Stored(i).type = "ReservationOverdue"
        /\ Stored(i).status = Failed

\* The invocation ended in its catch block with message, nothing returned
\* beside it
FailedWith(i, message) ==
    /\ Done(i)
    /\ inv[i].result = SendReservationEmailResult(FALSE, NoNotification, message)

\* sendEmail threw, or the terminal save did, after the Pending save returned
ThrewAfterPendingSave(i) ==
    LET history == inv[i].history
    IN  /\ Len(history) > 3
        /\ Prefix(history, 3) = <<"save Pending", "saved", "sendEmail">>
        /\ history[Len(history)] \in {"send threw", "save threw"}

\* The message of the exception that ended the invocation
ExceptionMessages ==
    TransportFaults
    \cup { wrapError("Failed to save EmailNotification", fault) : fault \in SaveErrors }

\* C28 as stated: when sendEmail throws or the terminal save throws after the
\* Pending save succeeded, the record under the id is still Pending with
\* retryCount 0, and the result is success=false with the exception message.
C28_FaultAfterPendingSaveLeavesPending ==
    \A i \in Invocations :
        ThrewAfterPendingSave(i) =>
            /\ HasStored(i)
            /\ Stored(i).status = Pending
            /\ Stored(i).retryCount = 0
            /\ \E message \in ExceptionMessages : FailedWith(i, message)

\* C28, amended: the record is still Pending with retryCount 0 when sendEmail
\* throws or the upsert of the terminal save fails; when the terminal save
\* throws because the upsert returned no resource, the record under the id
\* is the marked one, Sent or Failed.  In each case the result is
\* success=false with the exception message.
C28_FaultAfterPendingSaveKeepsLastUpsert ==
    \A i \in Invocations :
        ThrewAfterPendingSave(i) =>
            LET history == inv[i].history
                last == history[Len(history)]
                upserted == history[Len(history) - 1] = "upserted"
            IN  /\ HasStored(i)
                /\ ~upserted =>
                      /\ Stored(i).status = Pending
                      /\ Stored(i).retryCount = 0
                      /\ Stored(i).sentAt = Undefined
                      /\ Stored(i).failureReason = Undefined
                /\ upserted =>
                      /\ Stored(i) = mapToDocument(inv[i].notification)
                      /\ Stored(i).status = IF inv[i].sendResult.success THEN Sent ELSE Failed
                /\ last = "send threw" =>
                      /\ inv[i].raised \in TransportFaults
                      /\ FailedWith(i, inv[i].raised)
                /\ (last = "save threw" /\ ~upserted) =>
                      \E fault \in StoreFaults :
                          FailedWith(i, wrapError("Failed to save EmailNotification", fault))
                /\ (last = "save threw" /\ upserted) =>
                      FailedWith(i, wrapError("Failed to save EmailNotification",
                                              Str("Upsert returned no resource")))

C28_Witness ==
    \E i, j \in Invocations :
        /\ i # j
        /\ Done(i) /\ inv[i].history = <<"save Pending", "saved", "sendEmail", "send threw">>
        /\ Stored(i).status = Pending
        /\ Done(j) /\ Len(inv[j].history) = 7
        /\ inv[j].history[6] = "upserted" /\ inv[j].history[7] = "save threw"
        /\ Stored(j).status = Sent
        /\ ~inv[j].result.success

\* C30: there is no de-duplication: two invocations handling the same valid
\* event (same event id, same payload) each create a record under an id of
\* their own and each call sendEmail once for it, whatever the other one has
\* stored or sent.
C30_SameEventTwiceIsHandledTwice ==
    \A i, j \in Invocations :
        ( /\ i # j
          /\ Done(i) /\ Done(j)
          /\ inv[i].event = inv[j].event
          /\ inv[i].history # <<>> ) =>
            LET mine == inv[i].history
            IN  /\ inv[j].history # <<>>
                /\ inv[i].id # inv[j].id
                /\ Len(mine) > 1
                /\ mine[1] = "save Pending"
                /\ mine[2] \in {"saved", "upserted", "save threw"}
                /\ mine[2] \in Upserts =>
                      /\ HasStored(i)
                      /\ Stored(i).reservationId = trim(inv[i].event.data.reservationId)
                /\ mine[2] = "saved" =>
                      /\ Len(inv[i].sent) = 1
                      /\ inv[i].sent[1].id = inv[i].id
                      /\ inv[i].sent[1].to = inv[i].event.data.userEmail
                /\ mine[2] # "saved" => inv[i].sent = <<>>

C30_Witness ==
    \E i, j \in Invocations :
        /\ i # j
        /\ Done(i) /\ Done(j)
        /\ inv[i].event = inv[j].event
        /\ inv[i].history = Delivered /\ inv[j].history = Delivered
        /\ HasStored(i) /\ HasStored(j)
        /\ inv[i].id # inv[j].id
        /\ Stored(i).reservationId = Stored(j).reservationId
        /\ Stored(i).status = Sent /\ Stored(j).status = Sent
        /\ Len(inv[i].sent) = 1 /\ Len(inv[j].sent) = 1

-----------------------------------------------------------------------------
(* More properties of the store, under RepoSpec *)

\* The message save, getById and the lists put before the fault's
MessageOfOperation(op) ==
    CASE op = "save" -> "Failed to save EmailNotification"
      [] op = "getById" -> "Failed to get EmailNotification by id"
      [] op = "listByUserId" -> "Failed to list EmailNotifications by userId"
      [] op \in {"listByStatus", "listPending"} ->
            "Failed to list EmailNotifications by status"
      [] OTHER -> "Failed to delete EmailNotification"

\* The documents of the container a list call asks for
Listed(container, op, argument) ==
    { id \in DOMAIN container :
        IF op = "listByUserId" THEN container[id].userId = argument
        ELSE container[id].status = argument }

ListOperations == {"listByUserId", "listByStatus", "listPending"}

\* C29: getById returns null for an id that is not in the store, whether
\* the read comes back empty or throws the 404 error, and throws the wrapped
\* error for any other fault; save and the lists throw the wrapped error
\* for every fault, the 404 error too, and return nothing then; a list that
\* does not fail returns every matching notification, each once.
C29_NotFoundIsNotAFault ==
    LET wrapped(faults) ==
            { <<MessageOfOperation(reply.op), ": ">> \o fault : fault \in faults }
        faultMessages == { fault.message : fault \in AnyFaults }
    IN  /\ (reply.op = "getById" /\ ~reply.failed /\ reply.id \notin DOMAIN reply.before) =>
              ~reply.threw /\ reply.value = NoNotification
        /\ (reply.op = "getById" /\ reply.failed) =>
              /\ reply.threw
              /\ reply.value = NoNotification
              /\ reply.message \in wrapped(StoreFaults)
        /\ (reply.op = "save" /\ reply.failed) =>
              /\ reply.threw
              /\ reply.value = NoNotification
              /\ reply.message \in
                    wrapped(faultMessages \cup {Str("Upsert returned no resource")})
        /\ (reply.op \in ListOperations /\ reply.failed) =>
              /\ reply.threw
              /\ reply.value = <<>>
              /\ reply.message \in wrapped(faultMessages)
              /\ store = reply.before
        /\ (reply.op \in ListOperations /\ ~reply.failed) =>
              /\ ~reply.threw
              /\ reply.op = "listPending" => reply.id = Pending
              /\ Len(reply.value) = Cardinality(Listed(store, reply.op, reply.id))
              /\ { reply.value[k] : k \in 1..Len(reply.value) }
                    = { mapToDomain(store[id]) : id \in Listed(store, reply.op, reply.id) }
              /\ \A k, l \in 1..Len(reply.value) :
                    k < l => reply.value[k].createdAt[1] >= reply.value[l].createdAt[1]

C29_Witness ==
    /\ reply.op = "getById"
    /\ reply.failed /\ reply.threw
    /\ reply.id \in DOMAIN store
    /\ reply.value = NoNotification
    /\ reply.message = wrapError("Failed to get EmailNotification by id",
                                 Str("Service Unavailable"))

-----------------------------------------------------------------------------
(* Progress of an invocation, under FairSpec *)

\* No save and no send of the history threw
NoThrow(history) == Count(history, {"save threw", "send threw"}) = 0

\* C27: when its saves and its send return without throwing, an invocation
\* that passed validation goes through the Pending save, the send and the
\* terminal save in this order and returns, and the record it wrote is Sent
\* or Failed by then, not Pending.
C27_ValidInvocationRunsToTerminalSave ==
    \A i \in Invocations :
        (inv[i].pc = "savePending") ~>
            ( /\ Done(i)
              /\ NoThrow(inv[i].history) =>
                    /\ inv[i].history \in {Delivered, NotDelivered}
                    /\ HasStored(i)
                    /\ Stored(i).status \in {Sent, Failed}
                    /\ written[inv[i].id] \in {<<Pending, Sent>>, <<Pending, Failed>>}
                    /\ inv[i].result.notification = mapToDomain(Stored(i)) )

C27_Witness ==
    \E i \in Invocations :
        /\ Done(i)
        /\ inv[i].history = NotDelivered
        /\ written[inv[i].id] = <<Pending, Failed>>
        /\ Stored(i).status = Failed
        /\ inv[i].result.notification = mapToDomain(Stored(i))
        /\ \E j \in Invocations : inv[j].pc = "send"

-----------------------------------------------------------------------------
(* Properties of the records and the results together, under Spec *)

\* C31: every record in the store is consistent with its status: a Pending
\* one has retryCount 0, no sentAt and no failureReason; a Sent one has a
\* sentAt, no failureReason and retryCount 0; a Failed one has a non-empty
\* failureReason, no sentAt and retryCount 1.
C31_StoredRecordsAgreeWithStatus ==
    \A id \in DOMAIN store :
        LET document == store[id]
        IN  /\ document.status \in {Pending, Sent, Failed}
            /\ document.status = Pending =>
                  /\ document.retryCount = 0
                  /\ document.sentAt = Undefined
                  /\ document.failureReason = Undefined
            /\ document.status = Sent =>
                  /\ document.sentAt # Undefined /\ ~IsInvalidDate(document.sentAt)
                  /\ document.failureReason = Undefined
                  /\ document.retryCount = 0
            /\ document.status = Failed =>
                  /\ document.failureReason # Undefined
                  /\ document.failureReason # EmptyString
                  /\ document.sentAt = Undefined
                  /\ document.retryCount = 1

C31_Witness ==
    \E i \in Invocations :
        /\ HasStored(i)
        /\ Stored(i).status = Failed
        /\ inv[i].sendResult.error = Undefined
        /\ Stored(i).failureReason = Str("Unknown error")
        /\ Stored(i).retryCount = 1
        /\ Stored(i).sentAt = Undefined

\* C32: whenever sendReservationEmail returns success=false, sendEmail did
\* not return success=true in that invocation.
C32_FailureResultMeansNotDelivered ==
    \A i \in Invocations :
        (Done(i) /\ inv[i].invoked /\ ~inv[i].result.success) =>
            ~inv[i].sendResult.success

\* C33: in every invocation that attempts delivery, the recipient given to
\* sendEmail is the userEmail of the record stored for the invocation, for
\* every accepted userEmail.
C33_RecipientIsStoredUserEmail ==
    \A i \in Invocations :
        \A k \in 1..Len(inv[i].sent) :
            /\ HasStored(i)
            /\ inv[i].sent[k].to = Stored(i).userEmail

\* C34: whenever sendReservationEmail returns success=false with a
\* notification of status Failed, the error of the result is the
\* notification's failureReason, whether or not the transport gave an error
\* text.
C34_ResultErrorIsFailureReason ==
    \A i \in Invocations :
        ( /\ Done(i) /\ inv[i].invoked
          /\ ~inv[i].result.success
          /\ inv[i].result.notification.present
          /\ inv[i].result.notification.status = Failed ) =>
            inv[i].result.error = inv[i].result.notification.failureReason

\* The invocation was rejected for its userId, with nothing saved or sent
RejectedForUserId(i) ==
    /\ Done(i)
    /\ inv[i].invoked
    /\ inv[i].result = SendReservationEmailResult(FALSE, NoNotification,
                            Str("Notification userId must be a non-empty string."))
    /\ NothingPersisted(i)
    /\ inv[i].outcome = "returned"

\* C35 as stated: an event of a mapped type with a userEmail and a
\* reservationId but an absent or blank userId reaches sendReservationEmail,
\* which returns success=false for the userId; nothing is saved, nothing is
\* sent, and the handler returns normally.
C35_BlankUserIdIsRejectedByValidation ==
    \A i \in Invocations :
        (HasRequiredFields(i) /\ IsBlank(inv[i].event.data.userId)) => RejectedForUserId(i)

\* C35, amended: it does so when the sender and the store can be obtained;
\* with a setting missing sendReservationEmail is not reached, and still
\* nothing is saved, nothing is sent, and the handler returns normally.
C35_BlankUserIdIsRejectedWhenConfigured ==
    \A i \in Invocations :
        (HasRequiredFields(i) /\ IsBlank(inv[i].event.data.userId)) =>
            IF Settings \subseteq env
            THEN RejectedForUserId(i)
            ELSE /\ Done(i)
                 /\ ~inv[i].invoked
                 /\ inv[i].result = NoResult
                 /\ inv[i].history = <<>>
                 /\ inv[i].sent = <<>>
                 /\ randomUUID(i) \notin DOMAIN store
                 /\ inv[i].outcome = "returned"

C35_Witness ==
    \E i \in Invocations :
        /\ Settings \subseteq env
        /\ RejectedForUserId(i)
        /\ inv[i].event.data.userId = Blank
        /\ inv[i].event.data.userEmail = NotAnEmail
        /\ inv[i].event.data.reservationId = Blank
        /\ inv[i].event.eventType = "reservation.returned"

\* C36: when the sender or the store cannot be constructed for want of a
\* setting, the handler saves nothing and sends nothing for the event and
\* returns normally; what failed to construct is not cached, so that every
\* later event attempts the construction again, and ends the same way while
\* the setting is missing.
C36_FailedConstructionIsNotCached ==
    /\ cachedEmailSender => {"ACS_CONNECTION_STRING", "ACS_SENDER_ADDRESS"} \subseteq env
    /\ cachedNotificationRepo => Settings \subseteq env
    /\ ~(Settings \subseteq env) =>
          /\ store = <<>>
          /\ written = <<>>
          /\ getEmailSender(env, cachedEmailSender).threw
                \/ getNotificationRepo(env, cachedNotificationRepo).threw
          /\ \A i \in Invocations :
                HasRequiredFields(i) =>
                    /\ Done(i)
                    /\ ~inv[i].invoked
                    /\ inv[i].history = <<>>
                    /\ inv[i].sent = <<>>
                    /\ inv[i].outcome = "returned"

C36_Witness ==
    \E i, j \in Invocations :
        /\ i # j
        /\ "COSMOS_ENDPOINT" \notin env
        /\ HasRequiredFields(i) /\ HasRequiredFields(j)
        /\ Done(i) /\ Done(j)
        /\ ~inv[i].invoked /\ ~inv[j].invoked
        /\ inv[i].outcome = "returned" /\ inv[j].outcome = "returned"
        /\ cachedEmailSender
        /\ ~cachedNotificationRepo
        /\ store = <<>>

====
